---------------------------- MODULE Spec2Model ----------------------------
(***************************************************************************)
(* A model of weaklink: the runtime Library / Group objects                *)
(* (weaklink/src/lib.rs, weaklink/src/group.rs, weaklink/src/loading.rs),  *)
(* the calls that reach them through the generated stubs                   *)
(* (weaklink_build/src/stub_gen), and the build-time Config                *)
(* (weaklink_build/src/lib.rs).                                            *)
(*                                                                         *)
(* Runtime operations are executed by threads in steps; a step holds at    *)
(* most one access to shared memory (the handle word, a table slot, a      *)
(* group status, the checked state).  Under Spec the calls of different    *)
(* threads do not overlap; under SpecConc they interleave step by step.    *)
(***************************************************************************)
EXTENDS Integers, Sequences, FiniteSets, TLC

(* ------------------------------ bounds --------------------------------- *)

\* Operations started in one behaviour of the runtime.
MaxOps == 4
\* Operations started in one behaviour when calls interleave.
MaxOpsConc == 2
\* Live tokens one thread holds for one group.
MaxTokens == 2

\* add_symbol_group calls in one behaviour of the build-time Config.
MaxCalls == 2
\* Stubs passed to one add_symbol_group call.
MaxInput == 2

\* generate_source runs compared, each on a Config built by the same calls.
MaxRuns == 2

\* Entries of a symbol table, relocations of an object, members of an archive.
MaxSyms == 2
MaxRelocs == 2
MaxMembers == 2

\* First calls through stubs 0..MaxIndex.
MaxIndex == 2

\* Sections inserted into one SectionRanges, their offsets and sizes.
MaxRanges == 3
MaxOffset == 3
MaxSize == 2

Threads == {1, 2}

(* --------------------------- the generated unit ------------------------ *)

\* Positions of the stub table (symbol_names / symbol_table index).
Syms == {1, 2, 3}
\* The stub at position 3 is a data stub, the others are code stubs.
IsData(s) == s = 3
CodeSyms == {s \in Syms : ~IsData(s)}

\* The groups the generated unit declares, and their index slices.
Groups == {1, 2}
sym_indices(g) == IF g = 1 THEN <<1, 2>> ELSE <<2, 3>>
GroupSyms(g) == {sym_indices(g)[i] : i \in 1..Len(sym_indices(g))}
GroupsOf(s) == {g \in Groups : s \in GroupSyms(g)}

\* Candidate dylib names of the Library constant (Library.dylib_names).
dylib_names == <<1, 2>>
Paths == {1, 2}

GROUP_STATUS_UNKNOWN == 0
GROUP_STATUS_RESOLVED == 1
GROUP_STATUS_FAILED == 2

\* Address of the first-call thunk resolve_<s>.
Thunk(s) == s

(* ------------------------- the platform loader ------------------------- *)

\* The handle dlopen / LoadLibraryEx gives for a library file.
HandleOf(p) == 10 + p
Handles == {HandleOf(p) : p \in Paths}
\* What each library exports: library 1 lacks the symbol at position 3.
Exports(h) == IF h = HandleOf(1) THEN {1, 2} ELSE IF h = HandleOf(2) THEN {1, 2, 3} ELSE {}
\* The address of symbol s in library h.
Addr(h, s) == 10 * h + s
AddrsOf(s) == {Addr(h, s) : h \in {x \in Handles : s \in Exports(x)}}

VARIABLES
    present,          \* the library files the platform loader can load
    checked,          \* the runtime is built with feature "checked"
    lazy_binding,     \* the unit was generated with lazy binding
    overlap,          \* calls of different threads may interleave
    handle,           \* Library.handle
    symbol_table,     \* the synthetic symbol table (Library.symbol_table)
    checked_state,    \* Library.checked_state is initialized
    shadow_symbol_table,
    global_asserted,
    tls,              \* the threads that own a thread_asserted slice
    thread_asserted,
    status,           \* Group.status
    tokens,           \* live GroupResolved tokens, per thread and group
    th,               \* per thread: the call in progress
    running,          \* the thread whose call is in progress (no overlap)
    aborted,          \* the process has aborted
    nops,             \* operations started so far
    succ,             \* ghost: Group.resolve has returned success (no mark_failed since)
    perm,             \* ghost: a token of the group was made permanent
    observed,         \* ghost: a thread has read the group's status as Resolved
    viaLazy,          \* ghost: slots written by lazy_resolve
    stubs,            \* Config.stubs
    stub_by_exp,      \* Config.stub_by_exp
    groups,           \* Config.groups
    cfg_last,         \* ghost: the last add_symbol_group call and its result
    cfg_log,          \* ghost: the successful add_symbol_group calls, in order
    target,           \* Config.target
    adjust_symbol_names, \* Config.adjust_symbol_names
    gen,              \* what generate_source wrote, per run, on Configs built by these calls
    object,           \* the file an inspection call is given
    exports_result,   \* what dylib_exports returned for it
    imports_result,   \* what archive_imports returned for it
    cpu,              \* the processor on the path resolve_<i>, resolver_trampoline
    ranges            \* SectionRanges.ranges

lib_vars == <<handle, symbol_table, checked_state, shadow_symbol_table,
              global_asserted, tls, thread_asserted>>
env_vars == <<present, checked, lazy_binding, overlap>>
run_vars == <<status, tokens, th, running, aborted, nops, succ, perm, observed, viaLazy>>
cfg_vars == <<stubs, stub_by_exp, groups, cfg_last, cfg_log>>
gen_vars == <<target, adjust_symbol_names, gen>>
insp_vars == <<object, exports_result, imports_result>>
tool_vars == <<cpu, ranges>>
vars == <<env_vars, lib_vars, run_vars, cfg_vars, gen_vars, insp_vars, tool_vars>>

(* loading.rs: load_library gives a handle, or fails (0 stands for Err). *)
load_library(p) == IF p \in present THEN HandleOf(p) ELSE 0

(* loading.rs: find_symbol gives a non-null address, or fails (0 stands for Err). *)
find_symbol(h, s) == IF s \in Exports(h) THEN Addr(h, s) ELSE 0

(* Library::handle *)
handle_opt == IF handle # 0 THEN <<"Some", handle>> ELSE <<"None">>

(* -------------------------- thread bookkeeping ------------------------- *)

Idle ==
    [pc |-> "idle", op |-> "none", g |-> 0, k |-> 0, s |-> 0, path |-> 0,
     h |-> 0, a |-> 0, res |-> TRUE, clo |-> 0, cs |-> 0,
     ret |-> "none", val |-> 0, lookups |-> 0, loads |-> 0, tried |-> <<>>,
     h0 |-> 0, st0 |-> 0, slot0 |-> 0, succ0 |-> FALSE, tok0 |-> 0, perm0 |-> FALSE,
     miss0 |-> FALSE]

\* A call has returned to its caller (or ended the process).
Returned(r, what, v) == [r EXCEPT !.pc = "ret", !.ret = what, !.val = v]

\* The thread is inside Library::lazy_resolve (called from resolve_<i>).
InLazy(r) == r.op = "call" \/ r.clo = 1

AbortRets == {"abort_assert", "abort_symbol", "abort_load", "abort_null"}

\* A panic: inside lazy_resolve, catch_unwind turns it into process abort.
Panic(r, why) == IF InLazy(r) THEN Returned(r, why, 0) ELSE Returned(r, "panic", 0)

MaxStarted == IF overlap THEN MaxOpsConc ELSE MaxOps

CanStart(t) ==
    /\ ~aborted
    /\ th[t].pc = "idle"
    /\ nops < MaxStarted
    /\ overlap \/ running = 0

CanStep(t, pc) ==
    /\ ~aborted
    /\ th[t].pc = pc

\* The thread starts operation op with the record r.
Begin(t, r) ==
    /\ th' = [th EXCEPT ![t] = r]
    /\ running' = IF overlap THEN 0 ELSE t
    /\ nops' = nops + 1
    /\ aborted' = aborted

\* The thread moves on to the record r.
Goto(t, r) ==
    /\ th' = [th EXCEPT ![t] = r]
    /\ aborted' = (aborted \/ r.ret \in AbortRets)
    /\ UNCHANGED <<running, nops>>


Fixed == UNCHANGED <<env_vars, cfg_vars, gen_vars, insp_vars, tool_vars>>
NoLib == UNCHANGED lib_vars
NoGroup == UNCHANGED <<status, tokens, succ, perm, observed, viaLazy>>

(* ----------------------------- Library ---------------------------------- *)

(* Library::symbol_table_entry: the slot resolve_symbol reads and writes. *)
Slot(s) == IF checked THEN shadow_symbol_table[s] ELSE symbol_table[s]

\* A load loop that goes on after a candidate is accepted and keeps the last
\* accepted handle.
RECURSIVE load_loop_last(_, _)
load_loop_last(k, tried) ==
    IF k > Len(dylib_names)
    THEN [h |-> 0, tried |-> tried]
    ELSE LET rest == load_loop_last(k + 1, Append(tried, dylib_names[k]))
         IN  IF rest.h # 0 THEN rest
             ELSE [h |-> load_library(dylib_names[k]), tried |-> rest.tried]

(* Library::load, lines 100-106: the candidates in list order, up to the
   first one the platform loader accepts. *)
RECURSIVE load_loop(_, _)
load_loop(k, tried) ==
    IF k > Len(dylib_names)
    THEN [h |-> 0, tried |-> tried]
    ELSE LET hh == load_library(dylib_names[k])
         IN  IF hh # 0
             THEN [h |-> hh, tried |-> Append(tried, dylib_names[k])]
             ELSE load_loop(k + 1, Append(tried, dylib_names[k]))

\* resolve_symbol begins for symbol s.
RsStart(r, s) == [r EXCEPT !.s = s, !.pc = IF checked THEN "rs_read" ELSE "rs_handle"]

\* lazy_resolve returns to the resolver trampoline, which jumps to a.
CallDone(r, a) ==
    IF r.clo = 1
    THEN [r EXCEPT !.clo = 0, !.pc = "ir_deassert", !.val = a]
    ELSE Returned(r, "reached", a)

\* The group loops: all symbols resolved.
AfterLoop(r) ==
    CASE r.op = "resolve" ->
            [r EXCEPT !.pc = IF checked THEN "gr_assert" ELSE "gr_store"]
      [] r.op \in {"resolve_bool", "if_resolved"} ->
            [r EXCEPT !.res = TRUE, !.pc = IF checked THEN "gb_commit" ELSE "gb_store"]
      [] OTHER -> Returned(r, "ok", 0)

\* A group loop that ends after its first symbol.
NextSym_first(r) == AfterLoop(r)

\* The group loops: the next symbol, or the end of the loop.
NextSym(r) ==
    IF r.k < Len(sym_indices(r.g))
    THEN RsStart([r EXCEPT !.k = r.k + 1], sym_indices(r.g)[r.k + 1])
    ELSE AfterLoop(r)

\* The group loops: resolve_symbol returned Err.
OnErr(r) ==
    CASE r.op = "resolve" -> [r EXCEPT !.pc = "gr_fail"]
      [] r.op \in {"resolve_bool", "if_resolved"} -> [r EXCEPT !.res = FALSE, !.pc = "gb_store"]
      [] OTHER -> Returned(r, "err_symbol", 0)

\* resolve_symbol returns Ok(a) or Err to its caller.
RsDone(r, ok, a) ==
    IF InLazy(r)
    THEN IF ok THEN CallDone(r, a) ELSE Panic(r, "abort_symbol")
    ELSE IF ok THEN NextSym(r) ELSE OnErr(r)

(* Library::resolve_symbol_uncached, lines 157-158, and resolve_symbol,
   lines 174-178: find_symbol in handle h; Ok goes on to write the entry. *)
Find(r, h) ==
    LET a == find_symbol(h, r.s)
        r1 == [r EXCEPT !.h = h, !.a = a, !.lookups = r.lookups + 1]
    IN  IF a = 0 THEN RsDone(r1, FALSE, 0) ELSE [r1 EXCEPT !.pc = "rs_write"]

(* Library::resolve_symbol, lines 164-172 (checked): symbol_table_entry
   unwraps the checked state; a non-zero shadow entry is returned. *)
rs_read(t) ==
    /\ CanStep(t, "rs_read")
    /\ LET r == th[t]
       IN  Goto(t, IF ~checked_state THEN Panic(r, "abort_symbol")
                   ELSE IF shadow_symbol_table[r.s] # 0
                        THEN RsDone(r, TRUE, shadow_symbol_table[r.s])
                        ELSE [r EXCEPT !.pc = "rs_handle"])
    /\ NoLib /\ NoGroup /\ Fixed

(* Library::ensure_loaded, lines 144-146: the handle, if already loaded. *)
rs_handle(t) ==
    /\ CanStep(t, "rs_handle")
    /\ LET r == th[t]
       IN  Goto(t, IF handle # 0 THEN Find(r, handle) ELSE [r EXCEPT !.pc = "ld_read"])
    /\ NoLib /\ NoGroup /\ Fixed

\* An ensure_loaded that hands a failed load to its caller as an error.
ld_read_err(t) ==
    /\ CanStep(t, "ld_read")
    /\ LET r == th[t]
           q == load_loop(1, <<>>)
           r1 == [r EXCEPT !.tried = q.tried, !.loads = r.loads + Len(q.tried)]
       IN  Goto(t, IF handle # 0
                   THEN IF r.op = "load" THEN Returned(r, "err_already", 0)
                                         ELSE Panic(r, "abort_load")
                   ELSE IF q.h = 0
                        THEN IF r.op = "load" THEN Returned(r1, "err_notfound", 0)
                                              ELSE RsDone(r1, FALSE, 0)
                        ELSE [r1 EXCEPT !.h = q.h, !.pc = "ld_store"])
    /\ NoLib /\ NoGroup /\ Fixed

(* Library::load, lines 95-108 (called by the client, or by ensure_loaded,
   which panics on Err): the handle is read, the candidates are tried. *)
ld_read(t) ==
    /\ CanStep(t, "ld_read")
    /\ LET r == th[t]
           q == load_loop(1, <<>>)
           r1 == [r EXCEPT !.tried = q.tried, !.loads = r.loads + Len(q.tried)]
       IN  Goto(t, IF handle # 0
                   THEN IF r.op = "load" THEN Returned(r, "err_already", 0)
                                         ELSE Panic(r, "abort_load")
                   ELSE IF q.h = 0
                        THEN IF r.op = "load" THEN Returned(r1, "err_notfound", 0)
                                              ELSE Panic(r1, "abort_load")
                        ELSE [r1 EXCEPT !.h = q.h, !.pc = "ld_store"])
    /\ NoLib /\ NoGroup /\ Fixed

(* Library::load, lines 103-104: the handle is published and returned. *)
ld_store(t) ==
    /\ CanStep(t, "ld_store")
    /\ handle' = th[t].h
    /\ LET r == th[t]
       IN  Goto(t, IF r.op = "load" THEN Returned(r, "ok", r.h) ELSE Find(r, r.h))
    /\ UNCHANGED <<symbol_table, checked_state, shadow_symbol_table,
                   global_asserted, tls, thread_asserted>>
    /\ NoGroup /\ Fixed

\* A resolve_symbol that returns the address without writing the entry.
rs_write_skip(t) ==
    /\ CanStep(t, "rs_write")
    /\ LET r == th[t]
       IN  /\ viaLazy' = IF InLazy(r) THEN viaLazy \cup {r.s} ELSE viaLazy
           /\ Goto(t, RsDone(r, TRUE, r.a))
    /\ UNCHANGED <<handle, symbol_table, shadow_symbol_table, checked_state,
                   global_asserted, tls, thread_asserted>>
    /\ UNCHANGED <<status, tokens, succ, perm, observed>>
    /\ Fixed

\* A resolve_symbol that always writes the entry of the real table.
rs_write_real(t) ==
    /\ CanStep(t, "rs_write")
    /\ LET r == th[t]
       IN  /\ symbol_table' = [symbol_table EXCEPT ![r.s] = r.a]
           /\ shadow_symbol_table' = IF checked
                                     THEN [shadow_symbol_table EXCEPT ![r.s] = r.a]
                                     ELSE shadow_symbol_table
           /\ viaLazy' = IF InLazy(r) THEN viaLazy \cup {r.s} ELSE viaLazy
           /\ Goto(t, RsDone(r, TRUE, r.a))
    /\ UNCHANGED <<handle, checked_state, global_asserted, tls, thread_asserted>>
    /\ UNCHANGED <<status, tokens, succ, perm, observed>>
    /\ Fixed

(* Library::resolve_symbol, line 176: the address is written to the entry
   (the shadow entry in checked mode). *)
rs_write(t) ==
    /\ CanStep(t, "rs_write")
    /\ LET r == th[t]
       IN  /\ IF checked
              THEN /\ shadow_symbol_table' = [shadow_symbol_table EXCEPT ![r.s] = r.a]
                   /\ UNCHANGED symbol_table
              ELSE /\ symbol_table' = [symbol_table EXCEPT ![r.s] = r.a]
                   /\ UNCHANGED shadow_symbol_table
           /\ viaLazy' = IF InLazy(r) THEN viaLazy \cup {r.s} ELSE viaLazy
           /\ Goto(t, RsDone(r, TRUE, r.a))
    /\ UNCHANGED <<handle, checked_state, global_asserted, tls, thread_asserted>>
    /\ UNCHANGED <<status, tokens, succ, perm, observed>>
    /\ Fixed

(* Library::load, called by the client. *)
Load(t) ==
    /\ CanStart(t)
    /\ Begin(t, [Idle EXCEPT !.op = "load", !.pc = "ld_read", !.h0 = handle])
    /\ NoLib /\ NoGroup /\ Fixed

(* Library::load_from, called by the client with the file p. *)
LoadFrom(t, p) ==
    /\ CanStart(t)
    /\ Begin(t, [Idle EXCEPT !.op = "load_from", !.pc = "lf_read", !.path = p, !.h0 = handle])
    /\ NoLib /\ NoGroup /\ Fixed

\* A load_from that does not look at the current handle.
lf_read_nocheck(t) ==
    /\ CanStep(t, "lf_read")
    /\ LET r == th[t]
           hh == load_library(r.path)
           r1 == [r EXCEPT !.tried = <<r.path>>, !.loads = 1]
       IN  Goto(t, IF hh = 0 THEN Returned(r1, "err_load", 0)
                   ELSE [r1 EXCEPT !.h = hh, !.pc = "lf_store"])
    /\ NoLib /\ NoGroup /\ Fixed

(* Library::load_from, lines 112-118: the handle is read, then load_library. *)
lf_read(t) ==
    /\ CanStep(t, "lf_read")
    /\ LET r == th[t]
           hh == load_library(r.path)
           r1 == [r EXCEPT !.tried = <<r.path>>, !.loads = 1]
       IN  Goto(t, IF handle # 0 THEN Returned(r, "err_already", 0)
                   ELSE IF hh = 0 THEN Returned(r1, "err_load", 0)
                        ELSE [r1 EXCEPT !.h = hh, !.pc = "lf_store"])
    /\ NoLib /\ NoGroup /\ Fixed

(* Library::load_from, lines 119-122: the handle is published and returned. *)
lf_store(t) ==
    /\ CanStep(t, "lf_store")
    /\ handle' = th[t].h
    /\ Goto(t, Returned(th[t], "ok", th[t].h))
    /\ UNCHANGED <<symbol_table, checked_state, shadow_symbol_table,
                   global_asserted, tls, thread_asserted>>
    /\ NoGroup /\ Fixed

(* Library::set_handle: the client injects the handle of a loaded library. *)
SetHandle(t, h) ==
    /\ CanStart(t)
    /\ h \in {HandleOf(p) : p \in present}
    /\ handle' = h
    /\ Begin(t, Returned([Idle EXCEPT !.op = "set_handle", !.h0 = handle], "ok", h))
    /\ UNCHANGED <<symbol_table, checked_state, shadow_symbol_table,
                   global_asserted, tls, thread_asserted>>
    /\ NoGroup /\ Fixed

(* --------------------------- checked state ------------------------------ *)

(* Library::assert_resolved line 249 / deassert_resolved line 258: each
   index of the slice, in order, on the thread's u8 counters (d = 1 adds,
   d = 255 subtracts, modulo 2^8). *)
RECURSIVE bump(_, _, _, _)
bump(c, idx, k, d) ==
    IF k > Len(idx) THEN c
    ELSE bump([c EXCEPT ![idx[k]] = (@ + d) % 256], idx, k + 1, d)

(* Library::global_assert_resolved, lines 266-268 *)
RECURSIVE set_global(_, _, _)
set_global(b, idx, k) ==
    IF k > Len(idx) THEN b ELSE set_global([b EXCEPT ![idx[k]] = 1], idx, k + 1)

(* Library::check_asserted, lines 281-288: the checked state exists and the
   global byte or the thread's counter of the symbol is non-zero. *)
check_asserted(t, s) ==
    \/ ~checked
    \/ /\ checked_state
       /\ \/ global_asserted[s] # 0
          \/ t \in tls /\ thread_asserted[t][s] # 0

\* Live tokens thread t holds for the groups that contain symbol s.
HeldFor(t, s) == {g \in GroupsOf(s) : tokens[t][g] > 0}

(* ------------------------- Group (group.rs) ----------------------------- *)

(* Group::resolve of group.rs, line 41: the status is loaded. *)
Resolve(t, g) ==
    /\ CanStart(t)
    /\ tokens[t][g] < MaxTokens
    /\ Begin(t, [Idle EXCEPT !.op = "resolve", !.pc = "gr_status", !.g = g,
                             !.succ0 = succ[g], !.st0 = status[g], !.h0 = handle,
                             !.tok0 = tokens[t][g],
                             !.miss0 = (handle # 0 /\ ~(GroupSyms(g) \subseteq Exports(handle)))])
    /\ NoLib /\ NoGroup /\ Fixed

(* Group::resolve of group.rs, lines 41-57 *)
gr_status(t) ==
    /\ CanStep(t, "gr_status")
    /\ LET r == th[t]
       IN  /\ Goto(t, CASE status[r.g] = GROUP_STATUS_UNKNOWN ->
                              RsStart([r EXCEPT !.k = 1], sym_indices(r.g)[1])
                        [] status[r.g] = GROUP_STATUS_RESOLVED -> [r EXCEPT !.pc = "gr_assert"]
                        [] OTHER -> Returned(r, "err_group", 0))
           /\ observed' = IF status[r.g] = GROUP_STATUS_RESOLVED
                          THEN [observed EXCEPT ![r.g] = TRUE] ELSE observed
    /\ UNCHANGED <<status, tokens, succ, perm, viaLazy>>
    /\ NoLib /\ Fixed

\* A resolve that does not cache the Resolved status.
gr_store_skip(t) ==
    /\ CanStep(t, "gr_store")
    /\ Goto(t, [th[t] EXCEPT !.pc = "gr_assert"])
    /\ UNCHANGED <<status, tokens, succ, perm, observed, viaLazy>>
    /\ NoLib /\ Fixed

(* Group::resolve of group.rs, line 53 (not compiled in checked mode) *)
gr_store(t) ==
    /\ CanStep(t, "gr_store")
    /\ status' = [status EXCEPT ![th[t].g] = GROUP_STATUS_RESOLVED]
    /\ Goto(t, [th[t] EXCEPT !.pc = "gr_assert"])
    /\ UNCHANGED <<tokens, succ, perm, observed, viaLazy>>
    /\ NoLib /\ Fixed

(* Group::resolve of group.rs, lines 44-48: the failure is cached. *)
gr_fail(t) ==
    /\ CanStep(t, "gr_fail")
    /\ status' = [status EXCEPT ![th[t].g] = GROUP_STATUS_FAILED]
    /\ Goto(t, Returned(th[t], "err_symbol", 0))
    /\ UNCHANGED <<tokens, succ, perm, observed, viaLazy>>
    /\ NoLib /\ Fixed

(* Group::resolve of group.rs, lines 59-61: assert_resolved (lib.rs lines
   242-251 in checked mode, a no-op otherwise), and the token is returned. *)
gr_assert(t) ==
    /\ CanStep(t, "gr_assert")
    /\ LET r == th[t]
       IN  IF checked /\ ~checked_state
           THEN /\ Goto(t, Panic(r, "panic"))
                /\ UNCHANGED <<tls, thread_asserted, tokens, succ>>
           ELSE /\ tls' = IF checked THEN tls \cup {t} ELSE tls
                /\ thread_asserted' =
                       IF checked
                       THEN [thread_asserted EXCEPT ![t] = bump(@, sym_indices(r.g), 1, 1)]
                       ELSE thread_asserted
                /\ tokens' = [tokens EXCEPT ![t][r.g] = @ + 1]
                /\ succ' = [succ EXCEPT ![r.g] = TRUE]
                /\ Goto(t, Returned(r, "ok", 0))
    /\ UNCHANGED <<handle, symbol_table, checked_state, shadow_symbol_table, global_asserted>>
    /\ UNCHANGED <<status, perm, observed, viaLazy>>
    /\ Fixed

(* Drop for GroupResolved, lines 87-91: deassert_resolved (lib.rs lines
   254-260 in checked mode, a no-op otherwise). *)
DropToken(t, g) ==
    /\ CanStart(t)
    /\ tokens[t][g] > 0
    /\ tokens' = [tokens EXCEPT ![t][g] = @ - 1]
    /\ LET r == [Idle EXCEPT !.op = "drop", !.g = g]
       IN  IF checked /\ (~checked_state \/ t \notin tls)
           THEN /\ Begin(t, Returned(r, "panic", 0))
                /\ UNCHANGED thread_asserted
           ELSE /\ Begin(t, Returned(r, "ok", 0))
                /\ thread_asserted' =
                       IF checked
                       THEN [thread_asserted EXCEPT ![t] = bump(@, sym_indices(g), 1, 255)]
                       ELSE thread_asserted
    /\ UNCHANGED <<handle, symbol_table, checked_state, shadow_symbol_table, global_asserted, tls>>
    /\ UNCHANGED <<status, succ, perm, observed, viaLazy>>
    /\ Fixed

(* Library::deassert_resolved, lines 254-260, built with overflow checks:
   the subtraction panics at the first counter that is 0. *)
RECURSIVE deassert_checked(_, _, _)
deassert_checked(c, idx, k) ==
    IF k > Len(idx) THEN [c |-> c, ok |-> TRUE]
    ELSE IF c[idx[k]] = 0 THEN [c |-> c, ok |-> FALSE]
         ELSE deassert_checked([c EXCEPT ![idx[k]] = @ - 1], idx, k + 1)

(* Drop for GroupResolved, lines 87-91, on a token that thread u created and
   moved to thread t (the token is Send): deassert_resolved works on the
   counters of the dropping thread, wrapping modulo 2^8 or, in a build with
   overflow checks, panicking. *)
DropMoved(t, u, g, overflow_checks) ==
    /\ CanStart(t)
    /\ t # u
    /\ tokens[u][g] > 0
    /\ tokens' = [tokens EXCEPT ![u][g] = @ - 1]
    /\ LET r == [Idle EXCEPT !.op = "drop", !.g = g]
           d == deassert_checked(thread_asserted[t], sym_indices(g), 1)
       IN  IF checked /\ (~checked_state \/ t \notin tls)
           THEN /\ Begin(t, Returned(r, "panic", 0))
                /\ UNCHANGED thread_asserted
           ELSE IF checked /\ overflow_checks
           THEN /\ Begin(t, Returned(r, IF d.ok THEN "ok" ELSE "panic", 0))
                /\ thread_asserted' = [thread_asserted EXCEPT ![t] = d.c]
           ELSE /\ Begin(t, Returned(r, "ok", 0))
                /\ thread_asserted' =
                       IF checked
                       THEN [thread_asserted EXCEPT ![t] = bump(@, sym_indices(g), 1, 255)]
                       ELSE thread_asserted
    /\ UNCHANGED <<handle, symbol_table, checked_state, shadow_symbol_table, global_asserted, tls>>
    /\ UNCHANGED <<status, succ, perm, observed, viaLazy>>
    /\ Fixed

(* GroupResolved::mark_permanent, lines 82-84: the token is forgotten, its
   drop never runs. *)
MarkPermanent(t, g) ==
    /\ CanStart(t)
    /\ tokens[t][g] > 0
    /\ tokens' = [tokens EXCEPT ![t][g] = @ - 1]
    /\ perm' = [perm EXCEPT ![g] = TRUE]
    /\ Begin(t, Returned([Idle EXCEPT !.op = "mark_permanent", !.g = g], "ok", 0))
    /\ UNCHANGED <<status, succ, observed, viaLazy>>
    /\ NoLib /\ Fixed

\* A mark_failed that stores nothing.
MarkFailed_nostore(t, g) ==
    /\ CanStart(t)
    /\ succ' = [succ EXCEPT ![g] = FALSE]
    /\ Begin(t, Returned([Idle EXCEPT !.op = "mark_failed", !.g = g], "ok", 0))
    /\ UNCHANGED <<status, tokens, perm, observed, viaLazy>>
    /\ NoLib /\ Fixed

(* Group::mark_failed, lines 70-72 *)
MarkFailed(t, g) ==
    /\ CanStart(t)
    /\ status' = [status EXCEPT ![g] = GROUP_STATUS_FAILED]
    /\ succ' = [succ EXCEPT ![g] = FALSE]
    /\ Begin(t, Returned([Idle EXCEPT !.op = "mark_failed", !.g = g], "ok", 0))
    /\ UNCHANGED <<tokens, perm, observed, viaLazy>>
    /\ NoLib /\ Fixed

(* -------------------------- Group (lib.rs) ------------------------------ *)

\* Group::resolve of lib.rs returns b to its caller.
BoolDone(r, b) ==
    IF r.op = "if_resolved"
    THEN IF b THEN [r EXCEPT !.pc = "ir_assert"] ELSE Returned(r, "err_group", 0)
    ELSE Returned(r, IF b THEN "true" ELSE "false", 0)

\* Group::resolve_uncached begins.
UncachedStart(r) ==
    IF checked THEN [r EXCEPT !.pc = "ru_init"]
    ELSE RsStart([r EXCEPT !.k = 1], sym_indices(r.g)[1])

(* Group::resolve of lib.rs, line 329: the status is loaded. *)
ResolveBool(t, g) ==
    /\ CanStart(t)
    /\ Begin(t, [Idle EXCEPT !.op = "resolve_bool", !.pc = "gb_status", !.g = g,
                             !.succ0 = succ[g], !.st0 = status[g], !.h0 = handle,
                             !.tok0 = tokens[t][g],
                             !.miss0 = (handle # 0 /\ ~(GroupSyms(g) \subseteq Exports(handle)))])
    /\ NoLib /\ NoGroup /\ Fixed

(* Group::resolve_uncached, lines 315-325 *)
ResolveUncached(t, g) ==
    /\ CanStart(t)
    /\ Begin(t, UncachedStart([Idle EXCEPT !.op = "resolve_uncached", !.g = g, !.h0 = handle]))
    /\ NoLib /\ NoGroup /\ Fixed

\* The closure given to if_resolved panics.
ClosurePanics == -1

(* Group::if_resolved, lines 347-356, with a closure that calls the stub of
   code symbol c (c = 0: the closure calls no stub; c = ClosurePanics: the
   closure panics and the panic unwinds out of if_resolved). *)
IfResolved(t, g, c) ==
    /\ CanStart(t)
    /\ Begin(t, [Idle EXCEPT !.op = "if_resolved", !.pc = "gb_status", !.g = g, !.cs = c,
                             !.st0 = status[g], !.h0 = handle, !.tok0 = tokens[t][g]])
    /\ NoLib /\ NoGroup /\ Fixed

(* Group::resolve of lib.rs, lines 329-344 *)
gb_status(t) ==
    /\ CanStep(t, "gb_status")
    /\ LET r == th[t]
           st == status[r.g]
       IN  /\ Goto(t, CASE st = GROUP_STATUS_UNKNOWN -> UncachedStart(r)
                        [] st = GROUP_STATUS_RESOLVED -> BoolDone(r, TRUE)
                        [] OTHER -> BoolDone(r, FALSE))
           /\ observed' = IF st = GROUP_STATUS_RESOLVED
                          THEN [observed EXCEPT ![r.g] = TRUE] ELSE observed
           /\ succ' = IF st = GROUP_STATUS_RESOLVED
                      THEN [succ EXCEPT ![r.g] = TRUE] ELSE succ
    /\ UNCHANGED <<status, tokens, perm, viaLazy>>
    /\ NoLib /\ Fixed

(* Group::resolve_uncached, line 317, and Library::init_checked_state,
   lines 233-239 (checked mode) *)
ru_init(t) ==
    /\ CanStep(t, "ru_init")
    /\ checked_state' = TRUE
    /\ Goto(t, RsStart([th[t] EXCEPT !.k = 1], sym_indices(th[t].g)[1]))
    /\ UNCHANGED <<handle, symbol_table, shadow_symbol_table, global_asserted, tls, thread_asserted>>
    /\ NoGroup /\ Fixed

(* Group::resolve of lib.rs, line 334, and Library::global_assert_resolved,
   lines 263-269 (checked mode) *)
gb_commit(t) ==
    /\ CanStep(t, "gb_commit")
    /\ global_asserted' = set_global(global_asserted, sym_indices(th[t].g), 1)
    /\ Goto(t, [th[t] EXCEPT !.pc = "gb_store"])
    /\ UNCHANGED <<handle, symbol_table, checked_state, shadow_symbol_table, tls, thread_asserted>>
    /\ NoGroup /\ Fixed

(* Group::resolve of lib.rs, lines 332-340: the status is stored. *)
gb_store(t) ==
    /\ CanStep(t, "gb_store")
    /\ LET r == th[t]
       IN  /\ status' = [status EXCEPT ![r.g] =
                            IF r.res THEN GROUP_STATUS_RESOLVED ELSE GROUP_STATUS_FAILED]
           /\ succ' = IF r.res THEN [succ EXCEPT ![r.g] = TRUE] ELSE succ
           /\ Goto(t, BoolDone(r, r.res))
    /\ UNCHANGED <<tokens, perm, observed, viaLazy>>
    /\ NoLib /\ Fixed

(* Group::if_resolved, lines 349-350: assert_resolved, then the closure. *)
ir_assert(t) ==
    /\ CanStep(t, "ir_assert")
    /\ LET r == th[t]
           r1 == IF r.cs = 0 THEN [r EXCEPT !.pc = "ir_deassert"]
                 ELSE IF r.cs = ClosurePanics THEN Returned(r, "panic", 0)
                 ELSE [r EXCEPT !.clo = 1, !.s = r.cs, !.pc = "cs_jump"]
       IN  IF checked /\ ~checked_state
           THEN /\ Goto(t, Panic(r, "panic"))
                /\ UNCHANGED <<tls, thread_asserted>>
           ELSE /\ tls' = IF checked THEN tls \cup {t} ELSE tls
                /\ thread_asserted' =
                       IF checked
                       THEN [thread_asserted EXCEPT ![t] = bump(@, sym_indices(r.g), 1, 1)]
                       ELSE thread_asserted
                /\ Goto(t, r1)
    /\ UNCHANGED <<handle, symbol_table, checked_state, shadow_symbol_table, global_asserted>>
    /\ NoGroup /\ Fixed

(* Group::if_resolved, lines 351-352: deassert_resolved, Ok(result). *)
ir_deassert(t) ==
    /\ CanStep(t, "ir_deassert")
    /\ thread_asserted' =
           IF checked
           THEN [thread_asserted EXCEPT ![t] = bump(@, sym_indices(th[t].g), 1, 255)]
           ELSE thread_asserted
    /\ Goto(t, Returned(th[t], "ok", th[t].val))
    /\ UNCHANGED <<handle, symbol_table, checked_state, shadow_symbol_table, global_asserted, tls>>
    /\ NoGroup /\ Fixed

(* ------------------------- calls through a stub ------------------------- *)

(* StubGenerator::generate, lines 64-72: the exported accessor of a data
   symbol returns slot s of the synthetic table. *)
data_accessor(s) == symbol_table[s]

(* The client calls the exported stub of code symbol s. *)
Call(t, s) ==
    /\ CanStart(t)
    /\ s \in CodeSyms
    /\ Begin(t, [Idle EXCEPT !.op = "call", !.pc = "cs_jump", !.s = s, !.h0 = handle,
                             !.tok0 = Cardinality(HeldFor(t, s)),
                             !.perm0 = (\E g \in GroupsOf(s) : perm[g])])
    /\ NoLib /\ NoGroup /\ Fixed

(* StubGenerator::write_fn_stub: the trampoline loads slot s of the
   synthetic table and jumps to it: to the target, to resolve_<s> (which
   passes s to the resolver trampoline and so to lazy_resolve), or to 0. *)
cs_jump(t) ==
    /\ CanStep(t, "cs_jump")
    /\ LET r == [th[t] EXCEPT !.slot0 = symbol_table[th[t].s]]
           v == symbol_table[r.s]
       IN  Goto(t, IF v = 0 THEN Returned(r, "abort_null", 0)
                   ELSE IF v = Thunk(r.s) THEN [r EXCEPT !.pc = "lz_check"]
                        ELSE CallDone(r, v))
    /\ NoLib /\ NoGroup /\ Fixed

\* A lazy_resolve that resolves the symbol without the assertion check.
lz_check_skip(t) ==
    /\ CanStep(t, "lz_check")
    /\ Goto(t, RsStart(th[t], th[t].s))
    /\ NoLib /\ NoGroup /\ Fixed

(* Library::lazy_resolve, lines 184-191: check_asserted, then
   resolve_symbol; a panic aborts the process. *)
lz_check(t) ==
    /\ CanStep(t, "lz_check")
    /\ LET r == th[t]
       IN  Goto(t, IF check_asserted(t, r.s) THEN RsStart(r, r.s)
                   ELSE Panic(r, "abort_assert"))
    /\ NoLib /\ NoGroup /\ Fixed

\* The call is over: its caller goes on.
Return(t) ==
    /\ CanStep(t, "ret")
    /\ th' = [th EXCEPT ![t] = Idle]
    /\ running' = 0
    /\ UNCHANGED <<aborted, nops>>
    /\ NoLib /\ NoGroup /\ Fixed

(* ------------------------------ Config ---------------------------------- *)

\* Symbol names are strings of characters.
Names == {<<"f">>, <<"_", "f">>, <<"b">>}
GroupNames == {"A", "B"}

(* SymbolStub, lines 27-35: a stub looks its library symbol up under its own
   name or under another one. *)
SymbolStub ==
    {[import_name |-> i, export_name |-> e, is_data |-> d] :
        e \in Names, i \in Names \cup {<<"x">>}, d \in BOOLEAN}
StubUniverse == {s \in SymbolStub : s.import_name \in {s.export_name, <<"x">>}}

Inputs == UNION {[1..n -> StubUniverse] : n \in 0..MaxInput}

NoCall == [n |-> 0, group |-> "", symbols |-> <<>>, result |-> "none", allok |-> TRUE]

\* The build target Config::new finds in TARGET (lines 85-88).
HostTarget == "x86_64-unknown-linux-gnu"

(* Config::new, lines 90-98 *)
CfgInit ==
    /\ stubs = <<>>
    /\ stub_by_exp = [e \in {} |-> 0]
    /\ groups = [n \in {} |-> <<>>]
    /\ cfg_last = NoCall
    /\ cfg_log = <<>>
    /\ target = HostTarget
    /\ adjust_symbol_names = TRUE
    /\ gen = <<>>

\* HashMap::insert
MapPut(f, key, v) == [x \in DOMAIN f \cup {key} |-> IF x = key THEN v ELSE f[x]]

\* A loop that pushes every incoming stub, known export name or not.
RECURSIVE add_loop_nodedup(_, _, _)
add_loop_nodedup(c, symbols, k) ==
    IF k > Len(symbols) THEN c
    ELSE add_loop_nodedup([c EXCEPT !.stubs = Append(@, symbols[k]),
                                    !.stub_by_exp = MapPut(@, symbols[k].export_name, Len(c.stubs)),
                                    !.group_syms = Append(@, Len(c.stubs))],
                          symbols, k + 1)

(* Config::add_symbol_group, lines 111-141: the loop over the incoming
   stubs.  Indices are the 0-based positions of the Vec. *)
RECURSIVE add_loop(_, _, _)
add_loop(c, symbols, k) ==
    IF k > Len(symbols) THEN c
    ELSE LET symbol == symbols[k]
         IN  IF symbol.export_name \in DOMAIN c.stub_by_exp
             THEN LET idx == c.stub_by_exp[symbol.export_name]
                      existing == c.stubs[idx + 1]
                  IN  IF existing.is_data # symbol.is_data
                      THEN [c EXCEPT !.err = "incompatible_is_data"]
                      ELSE IF existing.import_name # symbol.import_name
                      THEN [c EXCEPT !.err = "incompatible_import_name"]
                      ELSE add_loop([c EXCEPT !.group_syms = Append(@, idx)], symbols, k + 1)
             ELSE LET idx == Len(c.stubs)
                  IN  add_loop([c EXCEPT !.stubs = Append(@, symbol),
                                         !.stub_by_exp = MapPut(@, symbol.export_name, idx),
                                         !.group_syms = Append(@, idx)],
                               symbols, k + 1)

\* An add_symbol_group that looks for the group name only after the loop.
AddSymbolGroup_late(group_name, symbols) ==
    /\ cfg_last.n < MaxCalls
    /\ LET c == add_loop([stubs |-> stubs, stub_by_exp |-> stub_by_exp,
                          group_syms |-> <<>>, err |-> "none"], symbols, 1)
           result == IF c.err # "none" THEN c.err
                     ELSE IF group_name \in DOMAIN groups THEN "duplicate_group" ELSE "ok"
       IN  /\ stubs' = c.stubs
           /\ stub_by_exp' = c.stub_by_exp
           /\ groups' = IF result = "ok" THEN MapPut(groups, group_name, c.group_syms)
                        ELSE groups
           /\ cfg_last' = [n |-> cfg_last.n + 1, group |-> group_name, symbols |-> symbols,
                           result |-> result, allok |-> (cfg_last.allok /\ result = "ok")]
           /\ cfg_log' = IF result = "ok"
                         THEN Append(cfg_log, [group |-> group_name, symbols |-> symbols])
                         ELSE cfg_log
    /\ UNCHANGED <<env_vars, lib_vars, run_vars, gen_vars, insp_vars, tool_vars>>

(* Config::add_symbol_group, lines 103-144 *)
AddSymbolGroup(group_name, symbols) ==
    /\ cfg_last.n < MaxCalls
    /\ LET c == add_loop([stubs |-> stubs, stub_by_exp |-> stub_by_exp,
                          group_syms |-> <<>>, err |-> "none"], symbols, 1)
           result == IF group_name \in DOMAIN groups THEN "duplicate_group"
                     ELSE IF c.err # "none" THEN c.err ELSE "ok"
       IN  /\ IF group_name \in DOMAIN groups
              THEN UNCHANGED <<stubs, stub_by_exp, groups>>
              ELSE /\ stubs' = c.stubs
                   /\ stub_by_exp' = c.stub_by_exp
                   /\ groups' = IF c.err = "none"
                                THEN MapPut(groups, group_name, c.group_syms)
                                ELSE groups
           /\ cfg_last' = [n |-> cfg_last.n + 1, group |-> group_name, symbols |-> symbols,
                           result |-> result, allok |-> (cfg_last.allok /\ result = "ok")]
           /\ cfg_log' = IF result = "ok"
                         THEN Append(cfg_log, [group |-> group_name, symbols |-> symbols])
                         ELSE cfg_log
    /\ UNCHANGED <<env_vars, lib_vars, run_vars, gen_vars, insp_vars, tool_vars>>

(* -------------------------- generate_source ----------------------------- *)

\* str::starts_with and str::contains
StartsWith(s, p) == Len(p) <= Len(s) /\ SubSeq(s, 1, Len(p)) = p
Contains(s, p) == \E i \in 0..(Len(s) - Len(p)) : SubSeq(s, i + 1, i + Len(p)) = p

\* Target triples a build may be configured for.
Targets == {"x86_64-apple-darwin", "x86_64-pc-windows-msvc", "aarch64-unknown-linux-gnu",
            "armv7-unknown-linux-gnueabihf", "loongarch64-unknown-linux-gnu",
            "riscv64gc-unknown-linux-gnu"}

\* The random suffixes of the symbol table's name (line 178).
Suffixes == {1, 2}

\* A name adjustment that prepends the underscore whatever the name starts with.
AdjustStub_prepend(stub) ==
    IF ~stub.is_data /\ stub.export_name = stub.import_name
    THEN [stub EXCEPT !.export_name = <<"_">> \o @]
    ELSE stub

(* generate_source, lines 154-163: the name adjustment of one stub. *)
AdjustStub(stub) ==
    IF ~stub.is_data /\ stub.export_name = stub.import_name
    THEN IF Len(stub.export_name) > 0 /\ stub.export_name[1] = "_"
         THEN [stub EXCEPT !.import_name = Tail(@)]
         ELSE [stub EXCEPT !.export_name = <<"_">> \o @]
    ELSE stub

(* generate_source, lines 149-167 *)
AdjustedStubs ==
    IF adjust_symbol_names /\ Contains(target, "-apple-")
    THEN [i \in 1..Len(stubs) |-> AdjustStub(stubs[i])]
    ELSE stubs

(* generate_source, lines 221-229 *)
target_os ==
    IF Contains(target, "linux") THEN "Linux"
    ELSE IF Contains(target, "apple") THEN "MacOS"
    ELSE IF Contains(target, "windows") THEN "Windows"
    ELSE "unsupported"

(* generate_source, lines 232-242: the stub generator of the architecture. *)
stub_gen ==
    IF StartsWith(target, "x86_64-") THEN "x64"
    ELSE IF StartsWith(target, "aarch64-") THEN "aarch64"
    ELSE IF StartsWith(target, "arm") THEN "arm"
    ELSE IF StartsWith(target, "loongarch") THEN "loongarch"
    ELSE "unsupported"

(* StubGenerator::asm_symbol_prefix: "_" for the x64 and aarch64 generators
   on MacOS, the default "" otherwise. *)
asm_symbol_prefix ==
    IF stub_gen \in {"x64", "aarch64"} /\ target_os = "MacOS" THEN <<"_">> ELSE <<>>

(* StubGenerator::data_ptr_directive and the bytes it reserves. *)
data_ptr_directive == IF stub_gen = "arm" THEN ".long" ELSE ".quad"
DirectiveBytes(dir) == IF dir = ".long" THEN 4 ELSE 8

\* Trampolines that all step by 8 bytes.
write_fn_stub_quad(symtab_base, index) ==
    [offset |-> index * 8,
     base   |-> IF stub_gen = "x64" /\ target_os = "Windows" THEN {symtab_base}
                ELSE {asm_symbol_prefix \o symtab_base}]

(* write_fn_stub of each generator: the byte offset of slot index, and the
   labels the trampoline names as the base of the table. *)
write_fn_stub(symtab_base, index) ==
    [offset |-> IF stub_gen = "arm" THEN index * 4 ELSE index * 8,
     base   |-> IF stub_gen = "x64" /\ target_os = "Windows" THEN {symtab_base}
                ELSE IF stub_gen \in {"x64", "loongarch"} THEN {asm_symbol_prefix \o symtab_base}
                ELSE IF stub_gen = "aarch64" /\ target_os = "MacOS"
                     THEN {asm_symbol_prefix \o symtab_base}
                ELSE IF stub_gen = "aarch64"
                     THEN {symtab_base, asm_symbol_prefix \o symtab_base}
                ELSE {symtab_base}]

(* Vec::sort of a group's indices (line 206): insertion into a sorted
   sequence. *)
RECURSIVE SortInsert(_, _)
SortInsert(sorted, x) ==
    IF sorted = <<>> THEN <<x>>
    ELSE IF x <= Head(sorted) THEN <<x>> \o sorted
         ELSE <<Head(sorted)>> \o SortInsert(Tail(sorted), x)
RECURSIVE sort(_)
sort(indices) ==
    IF indices = <<>> THEN <<>>
    ELSE SortInsert(sort(SubSeq(indices, 1, Len(indices) - 1)), indices[Len(indices)])

\* The orders in which iterating the HashMap `groups` can yield its keys:
\* the hasher is seeded at random for each map, so every order is possible.
IterOrders ==
    {o \in [1..Cardinality(DOMAIN groups) -> DOMAIN groups] :
        \A i, j \in DOMAIN o : o[i] = o[j] => i = j}

(* StubGenerator::generate, lines 21-74: the table, then one item per stub. *)
generate(symbols, symbol_table_name) ==
    [directive |-> data_ptr_directive,
     label |-> asm_symbol_prefix \o symbol_table_name,
     entries |-> [i \in 1..Len(symbols) |->
                     IF lazy_binding /\ ~symbols[i].is_data
                     THEN <<"resolve_", i - 1>> ELSE <<"0">>],
     items |-> [i \in 1..Len(symbols) |->
                   IF ~symbols[i].is_data
                   THEN [kind |-> "fn", name |-> symbols[i].export_name,
                         slot |-> write_fn_stub(symbol_table_name, i - 1)]
                   ELSE [kind |-> "accessor", name |-> symbols[i].export_name,
                         slot |-> [table |-> symbol_table_name, index |-> i - 1]]]]

NoUnit == [directive |-> "", label |-> <<>>, entries |-> <<>>, items |-> <<>>]

(* Config::generate_source, lines 147-245, with the table-name suffix the
   random generator gives and the order the iteration over the groups takes.
   What is written before a panic on an unsupported target stays written. *)
GenerateSource(suffix, order) ==
    /\ Len(gen) < MaxRuns
    /\ order \in IterOrders
    /\ LET sym_table == <<"symbol_table_", suffix>>
           supported == target_os # "unsupported" /\ stub_gen # "unsupported"
           out == [result |-> IF supported THEN "ok" ELSE "panic",
                   sym_table |-> sym_table,
                   size |-> Len(AdjustedStubs),
                   dylib_names |-> dylib_names,
                   symbol_names |-> [i \in 1..Len(AdjustedStubs) |-> AdjustedStubs[i].import_name],
                   groups |-> [k \in 1..Len(order) |->
                                  [name |-> order[k], indices |-> sort(groups[order[k]])]],
                   unit |-> IF supported THEN generate(AdjustedStubs, sym_table) ELSE NoUnit]
       IN  gen' = Append(gen, out)
    /\ UNCHANGED <<target, adjust_symbol_names>>
    /\ UNCHANGED <<env_vars, lib_vars, run_vars, cfg_vars, insp_vars, tool_vars>>

(* ------------------------- resolver trampoline -------------------------- *)

\* One instruction: its operation, register operands and immediate.
Ins(op, r1, r2, n) == [op |-> op, r1 |-> r1, r2 |-> r2, n |-> n]
Map(f(_), q) == [k \in DOMAIN q |-> f(q[k])]
Push(r) == Ins("push", r, "", 0)
Pop(r) == Ins("pop", r, "", 0)

(* write_jmp_binder of each generator: the index is put on the stack (x64)
   or in the scratch register, and control goes to the trampoline. *)
write_jmp_binder(index) ==
    CASE stub_gen = "x64" -> <<Ins("push_imm", "", "", index), Ins("jmp", "", "", 0)>>
      [] stub_gen = "aarch64" -> <<Ins("ldr_imm", "x16", "", index), Ins("jmp", "", "", 0)>>
      [] stub_gen = "arm" -> <<Ins("ldr_imm", "r12", "", index), Ins("jmp", "", "", 0)>>

(* X64StubGenerator::write_binder_stub, lines 38-97 *)
x64_binder_stub ==
    LET first_param == IF target_os = "Windows" THEN "rcx" ELSE "rdi"
        saved == <<"rax", "rcx", "rdx", "rdi", "rsi", "r8", "r9", "r10", "r11">>
        restored == <<"r11", "r10", "r9", "r8", "rsi", "rdi", "rdx", "rcx", "rax">>
    IN  <<Push("rbx"), Ins("mov", "rbx", "rsp", 0), Ins("align", "rsp", "", 16)>>
            \o Map(Push, saved)
            \o <<Ins("sub", "rsp", "", 8 * 5),
                 Ins("load", first_param, "rbx", 8),
                 Ins("call", "", "", 0),
                 Ins("add", "rsp", "", 8 * 5),
                 Ins("store", "rax", "rbx", 8)>>
            \o Map(Pop, restored)
            \o <<Ins("mov", "rsp", "rbx", 0), Pop("rbx"), Ins("ret", "", "", 0)>>

(* Aarch64StubGenerator::write_binder_stub, lines 41-72 *)
aarch64_binder_stub ==
    LET Stp(pr) == Ins("stp", pr[1], pr[2], 0)
        Ldp(pr) == Ins("ldp", pr[1], pr[2], 0)
        saved == <<<<"x0", "x1">>, <<"x2", "x3">>, <<"x4", "x5">>, <<"x6", "x7">>,
                   <<"x8", "x9">>, <<"x10", "x11">>, <<"x12", "x13">>, <<"x14", "x15">>,
                   <<"x17", "lr">>>>
        restored == [k \in DOMAIN saved |-> saved[Len(saved) + 1 - k]]
    IN  Map(Stp, saved)
            \o <<Ins("mov", "x0", "x16", 0), Ins("call", "", "", 0), Ins("mov", "x16", "x0", 0)>>
            \o Map(Ldp, restored)
            \o <<Ins("jmp_reg", "x16", "", 0)>>

(* ArmStubGenerator::write_binder_stub, lines 35-49: push and pop of a
   register list store the lowest register at the lowest address. *)
arm_binder_stub ==
    <<Push("lr"), Push("r3"), Push("r2"), Push("r1"), Push("r0"),
      Ins("mov", "r7", "sp", 0),
      Ins("align", "sp", "", 8),
      Ins("mov", "r0", "r12", 0),
      Ins("call", "", "", 0),
      Ins("mov", "r12", "r0", 0),
      Ins("mov", "sp", "r7", 0),
      Pop("r0"), Pop("r1"), Pop("r2"), Pop("r3"), Pop("lr"),
      Ins("jmp_reg", "r12", "", 0)>>

write_binder_stub ==
    CASE stub_gen = "x64" -> x64_binder_stub
      [] stub_gen = "aarch64" -> aarch64_binder_stub
      [] stub_gen = "arm" -> arm_binder_stub

\* The instructions a first call runs from resolve_<index> on.
Program(index) == write_jmp_binder(index) \o write_binder_stub

\* The registers of each architecture: those the generators name, callee-saved
\* ones, and one floating-point argument register.
SP == IF stub_gen = "x64" THEN "rsp" ELSE "sp"
Word == IF stub_gen = "arm" THEN 4 ELSE 8
Scratch == CASE stub_gen = "x64" -> "r11" [] stub_gen = "aarch64" -> "x16" [] stub_gen = "arm" -> "r12"
RegList ==
    CASE stub_gen = "x64" ->
            <<"rax", "rcx", "rdx", "rbx", "rbp", "rsi", "rdi", "r8", "r9", "r10", "r11",
              "r12", "xmm0">>
      [] stub_gen = "aarch64" ->
            <<"x0", "x1", "x2", "x3", "x4", "x5", "x6", "x7", "x8", "x9", "x10", "x11",
              "x12", "x13", "x14", "x15", "x16", "x17", "x19", "lr", "v0">>
      [] stub_gen = "arm" ->
            <<"r0", "r1", "r2", "r3", "r4", "r7", "r12", "lr", "d0">>
Regs == {RegList[k] : k \in DOMAIN RegList}

\* The registers a function of the C ABI may change (its result register
\* apart), and the registers of its first parameter and of its result.
Volatile ==
    CASE stub_gen = "x64" /\ target_os = "Windows" ->
            {"rcx", "rdx", "r8", "r9", "r10", "r11", "xmm0"}
      [] stub_gen = "x64" ->
            {"rcx", "rdx", "rsi", "rdi", "r8", "r9", "r10", "r11", "xmm0"}
      [] stub_gen = "aarch64" ->
            {"x1", "x2", "x3", "x4", "x5", "x6", "x7", "x8", "x9", "x10", "x11", "x12",
             "x13", "x14", "x15", "x16", "x17", "lr", "v0"}
      [] stub_gen = "arm" -> {"r1", "r2", "r3", "r12", "lr", "d0"}
FirstParam ==
    CASE stub_gen = "x64" -> IF target_os = "Windows" THEN "rcx" ELSE "rdi"
      [] stub_gen = "aarch64" -> "x0"
      [] stub_gen = "arm" -> "r0"
ResultReg == CASE stub_gen = "x64" -> "rax" [] stub_gen = "aarch64" -> "x0" [] stub_gen = "arm" -> "r0"

\* Values: what register k holds when the stub is entered, the return
\* address of the caller, the address the resolver returns, anything else.
EntryValue(r) == 1000 + (CHOOSE k \in DOMAIN RegList : RegList[k] = r)
ReturnAddress == 900
ResolvedAddress == 500
Junk == 7
StackTop == 4096

MemStore(mem, a, v) == [x \in DOMAIN mem \cup {a} |-> IF x = a THEN v ELSE mem[x]]
MemLoad(mem, a) == IF a \in DOMAIN mem THEN mem[a] ELSE Junk

(* lazy_resolve as the trampoline sees it, a function of the C ABI: it gets
   the index in the first parameter register and returns the address; it may
   change every volatile register and the stack below the stack pointer (on
   Windows x64 also its four home slots). *)
CallResolver(c) ==
    LET sp == c.regs[SP]
        own == IF stub_gen = "x64" /\ target_os = "Windows" THEN sp + 8 * 4 ELSE sp
    IN  [c EXCEPT !.passed = c.regs[FirstParam],
                  !.regs = [r \in DOMAIN c.regs |->
                               IF r = ResultReg THEN ResolvedAddress
                               ELSE IF r = "lr" THEN Junk
                               ELSE IF c.clobber /\ r \in Volatile THEN Junk
                               ELSE c.regs[r]],
                  !.mem = [a \in DOMAIN c.mem |->
                               IF c.clobber /\ a < own THEN Junk ELSE c.mem[a]]]

\* The processor runs one instruction.
Exec(i, c) ==
    LET sp == c.regs[SP]
        next == [c EXCEPT !.pc = c.pc + 1]
    IN  CASE i.op = "push" ->
                [next EXCEPT !.regs[SP] = sp - Word, !.mem = MemStore(c.mem, sp - Word, c.regs[i.r1])]
          [] i.op = "push_imm" ->
                [next EXCEPT !.regs[SP] = sp - Word, !.mem = MemStore(c.mem, sp - Word, i.n)]
          [] i.op = "pop" ->
                [next EXCEPT !.regs = [c.regs EXCEPT ![i.r1] = MemLoad(c.mem, sp),
                                                     ![SP] = IF i.r1 = SP THEN MemLoad(c.mem, sp)
                                                             ELSE sp + Word]]
          [] i.op = "stp" ->
                [next EXCEPT !.regs[SP] = sp - 16,
                             !.mem = MemStore(MemStore(c.mem, sp - 16, c.regs[i.r1]),
                                           sp - 8, c.regs[i.r2])]
          [] i.op = "ldp" ->
                [next EXCEPT !.regs = [c.regs EXCEPT ![i.r1] = MemLoad(c.mem, sp),
                                                     ![i.r2] = MemLoad(c.mem, sp + 8),
                                                     ![SP] = sp + 16]]
          [] i.op = "mov" -> [next EXCEPT !.regs[i.r1] = c.regs[i.r2]]
          [] i.op = "ldr_imm" -> [next EXCEPT !.regs[i.r1] = i.n]
          [] i.op = "align" -> [next EXCEPT !.regs[SP] = sp - (sp % i.n)]
          [] i.op = "sub" -> [next EXCEPT !.regs[SP] = sp - i.n]
          [] i.op = "add" -> [next EXCEPT !.regs[SP] = sp + i.n]
          [] i.op = "load" -> [next EXCEPT !.regs[i.r1] = MemLoad(c.mem, c.regs[i.r2] + i.n)]
          [] i.op = "store" -> [next EXCEPT !.mem = MemStore(c.mem, c.regs[i.r2] + i.n, c.regs[i.r1])]
          [] i.op = "call" -> CallResolver(next)
          [] i.op = "ret" -> [next EXCEPT !.regs[SP] = sp + Word, !.jumped = MemLoad(c.mem, sp)]
          [] i.op = "jmp_reg" -> [next EXCEPT !.jumped = c.regs[i.r1]]
          [] OTHER -> next

\* The caller has called the stub, whose slot holds resolve_<index>.
Entered(index, sp0, clobber) ==
    [pc |-> 1, index |-> index, sp0 |-> sp0, clobber |-> clobber,
     regs |-> [r \in Regs \cup {SP} |-> IF r = SP THEN sp0 ELSE EntryValue(r)],
     mem |-> [a \in {sp0} |-> ReturnAddress],
     passed |-> -1, jumped |-> 0]

Step ==
    /\ cpu.pc \in 1..Len(Program(cpu.index))
    /\ cpu' = Exec(Program(cpu.index)[cpu.pc], cpu)
    /\ UNCHANGED <<env_vars, lib_vars, run_vars, cfg_vars, gen_vars, insp_vars, ranges>>

(* ----------------------------- inspector -------------------------------- *)

\* Option::None, and the results of an inspection call.
None == "None"
NoResult == [result |-> "none", list |-> <<>>]
Ok(list) == [result |-> "Ok", list |-> list]
Err == [result |-> "Err", list |-> <<>>]
Panicked == [result |-> "panic", list |-> <<>>]

\* No inspection call is made.
NoObject == [kind |-> "NoFile", first |-> "Binary", ok |-> TRUE, sections |-> <<>>,
             syms |-> <<>>, relocs |-> <<>>, members |-> <<>>]
InspIdle ==
    /\ object = NoObject /\ exports_result = NoResult /\ imports_result = NoResult
    /\ cpu = [pc |-> 0] /\ ranges = <<>>

(* exports.rs, SectionRanges::insert, lines 112-115: the ranges are kept
   sorted by offset; a range goes before the ranges of an equal offset. *)
lower_bound(rgs, offset) == Cardinality({i \in DOMAIN rgs : rgs[i].offset < offset})
insert(rgs, sec) ==
    LET idx == lower_bound(rgs, sec.offset)
    IN  SubSeq(rgs, 1, idx) \o <<sec>> \o SubSeq(rgs, idx + 1, Len(rgs))

\* The loops of lines 48-54 and 84-86: every section of the object, in order.
RECURSIVE insert_all(_, _, _)
insert_all(rgs, sections, k) ==
    IF k > Len(sections) THEN rgs
    ELSE insert_all(insert(rgs, sections[k]), sections, k + 1)

(* exports.rs, SectionRanges::lookup, lines 117-124: the last range that
   begins at or before the offset, if the offset lies inside it. *)
upper_bound(rgs, offset) == Cardinality({i \in DOMAIN rgs : rgs[i].offset <= offset})
lookup(rgs, offset) ==
    LET idx == upper_bound(rgs, offset)
    IN  IF idx > 0 /\ rgs[idx].offset + rgs[idx].size > offset
        THEN rgs[idx].name ELSE None

\* The names of the sections, by order of insertion.
SectionNames == <<".text", ".data", ".bss", ".rodata">>

(* SectionRanges::insert, called for a section of the object. *)
Insert(offset, size) ==
    /\ Len(ranges) < MaxRanges
    /\ ranges' = insert(ranges, [offset |-> offset, size |-> size,
                                 name |-> SectionNames[Len(ranges) + 1]])
    /\ UNCHANGED <<env_vars, lib_vars, run_vars, cfg_vars, gen_vars, insp_vars, cpu>>

Export(name, section) == [name |-> name, section |-> section]

(* dylib_exports, lines 30-44 (ELF): the dynamic symbols that are not
   imports and have a non-empty name, each with the name of the section
   header its st_shndx indexes (sections[1] is header 0). *)
elf_exports(elf) ==
    LET kept == SelectSeq(elf.syms,
                          LAMBDA sym : ~sym.import /\ sym.name # None /\ sym.name # "")
    IN  IF \E i \in DOMAIN kept : kept[i].loc + 1 > Len(elf.sections)
        THEN Panicked
        ELSE Ok([i \in DOMAIN kept |->
                    Export(kept[i].name, elf.sections[kept[i].loc + 1].name)])

(* dylib_exports, lines 46-69 (Mach-O): every entry of the export trie, with
   the section its offset lies in. *)
macho_exports(macho) ==
    LET rgs == insert_all(<<>>, macho.sections, 1)
    IN  IF ~macho.ok THEN Err
        ELSE Ok([i \in DOMAIN macho.syms |->
                    Export(macho.syms[i].name, lookup(rgs, macho.syms[i].loc))])

(* dylib_exports, lines 82-98 (PE): every export that has a name. *)
pe_exports(pe) ==
    LET rgs == insert_all(<<>>, pe.sections, 1)
        kept == SelectSeq(pe.syms, LAMBDA export : export.name # None)
    IN  Ok([i \in DOMAIN kept |-> Export(kept[i].name, lookup(rgs, kept[i].loc))])

(* dylib_exports, lines 24-101 *)
dylib_exports(obj) ==
    CASE obj.kind \in {"NoFile", "Unparsed"} -> Err
      [] obj.kind = "Elf" -> elf_exports(obj)
      [] obj.kind = "Mach" ->
            IF obj.first \in {"Binary", "MachO"} THEN macho_exports(obj) ELSE Err
      [] obj.kind = "PE" -> pe_exports(obj)
      [] OTHER -> Err

\* A get_unique_imports that went well, with the set of names so far.
Got(imports) == [ok |-> TRUE, imports |-> imports]
Failed == [ok |-> FALSE, imports |-> {}]

(* get_unique_imports, lines 37-51 (ELF): the names of the symbols that
   relocations refer to and that are undefined, with section index 0. *)
elf_imports(elf, imports) ==
    Got(imports \cup
        {elf.syms[r.sym].name :
            r \in {elf.relocs[i] : i \in {j \in DOMAIN elf.relocs :
                        /\ elf.relocs[j].sym \in DOMAIN elf.syms
                        /\ elf.syms[elf.relocs[j].sym].import
                        /\ elf.syms[elf.relocs[j].sym].loc = 0
                        /\ elf.syms[elf.relocs[j].sym].name # None}}})

(* get_unique_imports, lines 53-72 (Mach-O): the names of the symbols that
   extern relocations refer to; a symbol number outside the table is an
   error. *)
macho_imports(macho, imports) ==
    LET ext == {i \in DOMAIN macho.relocs : macho.relocs[i].extern}
    IN  IF ~macho.ok \/ \E i \in ext : macho.relocs[i].sym \notin DOMAIN macho.syms
        THEN Failed
        ELSE Got(imports \cup {macho.syms[macho.relocs[i].sym].name : i \in ext})

(* get_unique_imports, lines 85-97 (COFF): the names of the symbols of the
   undefined section (section_number 0); a name that cannot be read is an
   error. *)
coff_imports(coff, imports) ==
    LET undef == {i \in DOMAIN coff.syms : coff.syms[i].loc = 0}
    IN  IF \E i \in undef : coff.syms[i].name = None
        THEN Failed
        ELSE Got(imports \cup {coff.syms[i].name : i \in undef})

(* get_unique_imports, lines 26-100: an archive is walked member by member
   (a member that cannot be extracted is skipped), into the same set. *)
RECURSIVE get_unique_imports(_, _)
RECURSIVE archive_members(_, _, _)
archive_members(archive, k, imports) ==
    IF k > Len(archive.members) THEN Got(imports)
    ELSE IF archive.members[k].kind = "ExtractErr"
         THEN archive_members(archive, k + 1, imports)
         ELSE LET r == get_unique_imports(archive.members[k], imports)
              IN  IF r.ok THEN archive_members(archive, k + 1, r.imports) ELSE Failed

get_unique_imports(obj, imports) ==
    CASE obj.kind = "Archive" -> archive_members(obj, 1, imports)
      [] obj.kind = "Elf" -> elf_imports(obj, imports)
      [] obj.kind = "Mach" ->
            IF obj.first \in {"Binary", "MachO"} THEN macho_imports(obj, imports) ELSE Failed
      [] obj.kind = "COFF" -> coff_imports(obj, imports)
      [] OTHER -> Failed

\* HashSet::into_iter gives the names once each, in an order of its own.
SetOrders(S) ==
    {o \in [1..Cardinality(S) -> S] : \A i, j \in DOMAIN o : o[i] = o[j] => i = j}

(* archive_imports, lines 16-24 *)
archive_imports(obj, order) ==
    LET r == IF obj.kind = "NoFile" THEN Failed ELSE get_unique_imports(obj, {})
    IN  IF r.ok THEN Ok([i \in DOMAIN order |-> [name |-> order[i]]]) ELSE Err

\* The build script calls dylib_exports on the file.
DylibExports ==
    /\ exports_result = NoResult
    /\ exports_result' = dylib_exports(object)
    /\ UNCHANGED <<object, imports_result>>
    /\ UNCHANGED <<env_vars, lib_vars, run_vars, cfg_vars, gen_vars, tool_vars>>

\* The build script calls archive_imports on the file.
ArchiveImports ==
    /\ imports_result = NoResult
    /\ LET r == IF object.kind = "NoFile" THEN Failed ELSE get_unique_imports(object, {})
       IN  \E order \in SetOrders(r.imports) :
               imports_result' = archive_imports(object, order)
    /\ UNCHANGED <<object, exports_result>>
    /\ UNCHANGED <<env_vars, lib_vars, run_vars, cfg_vars, gen_vars, tool_vars>>

(* --------------------------- specifications ----------------------------- *)

(* Library::new (lib.rs lines 79-92), Group::new (group.rs lines 25-32) and
   the table StubGenerator::generate emits (stub_gen/mod.rs lines 21-29):
   resolve_<i> for a code stub under lazy binding, 0 otherwise.  The checked
   build is used with lazy binding, which routes every call to lazy_resolve. *)
RunInit ==
    /\ present \in SUBSET Paths
    /\ checked \in BOOLEAN
    /\ lazy_binding \in BOOLEAN
    /\ checked => lazy_binding
    /\ handle = 0
    /\ symbol_table = [s \in Syms |-> IF lazy_binding /\ ~IsData(s) THEN Thunk(s) ELSE 0]
    /\ checked_state = FALSE
    /\ shadow_symbol_table = [s \in Syms |-> 0]
    /\ global_asserted = [s \in Syms |-> 0]
    /\ tls = {}
    /\ thread_asserted = [t \in Threads |-> [s \in Syms |-> 0]]
    /\ status = [g \in Groups |-> GROUP_STATUS_UNKNOWN]
    /\ tokens = [t \in Threads |-> [g \in Groups |-> 0]]
    /\ th = [t \in Threads |-> Idle]
    /\ running = 0
    /\ aborted = FALSE
    /\ nops = 0
    /\ succ = [g \in Groups |-> FALSE]
    /\ perm = [g \in Groups |-> FALSE]
    /\ observed = [g \in Groups |-> FALSE]
    /\ viaLazy = {}

Init == RunInit /\ overlap = FALSE /\ CfgInit /\ InspIdle

InitConc == RunInit /\ overlap = TRUE /\ CfgInit /\ InspIdle

Next ==
    \E t \in Threads :
        \/ Load(t)
        \/ \E p \in Paths : LoadFrom(t, p)
        \/ \E h \in Handles : SetHandle(t, h)
        \/ \E g \in Groups : Resolve(t, g)
        \/ \E g \in Groups : DropToken(t, g)
        \/ \E g \in Groups : MarkPermanent(t, g)
        \/ \E g \in Groups : MarkFailed(t, g)
        \/ \E g \in Groups : ResolveBool(t, g)
        \/ \E g \in Groups : ResolveUncached(t, g)
        \/ \E g \in Groups, c \in CodeSyms \cup {0, ClosurePanics} : IfResolved(t, g, c)
        \/ \E s \in CodeSyms : Call(t, s)
        \/ ld_read(t) \/ ld_store(t) \/ lf_read(t) \/ lf_store(t)
        \/ rs_read(t) \/ rs_handle(t) \/ rs_write(t)
        \/ gr_status(t) \/ gr_store(t) \/ gr_fail(t) \/ gr_assert(t)
        \/ gb_status(t) \/ ru_init(t) \/ gb_commit(t) \/ gb_store(t)
        \/ ir_assert(t) \/ ir_deassert(t)
        \/ cs_jump(t) \/ lz_check(t)
        \/ Return(t)

Spec == Init /\ [][Next]_vars

SpecConc == InitConc /\ [][Next]_vars

\* The client also moves tokens between its threads before it drops them.
NextMove ==
    \/ Next
    \/ \E t, u \in Threads, g \in Groups, overflow_checks \in BOOLEAN :
           DropMoved(t, u, g, overflow_checks)

SpecMove == Init /\ [][NextMove]_vars

InitCfg ==
    /\ RunInit /\ present = Paths /\ ~checked /\ ~lazy_binding /\ overlap = FALSE
    /\ CfgInit /\ InspIdle

NextCfg == \E group_name \in GroupNames, symbols \in Inputs : AddSymbolGroup(group_name, symbols)

SpecCfg == InitCfg /\ [][NextCfg]_vars

\* The stubs a build script passes: SymbolStub::new, a renamed code stub and
\* a data stub.
GenStubs ==
    {[import_name |-> <<"f">>, export_name |-> <<"f">>, is_data |-> FALSE],
     [import_name |-> <<"_", "f">>, export_name |-> <<"_", "f">>, is_data |-> FALSE],
     [import_name |-> <<"x">>, export_name |-> <<"b">>, is_data |-> FALSE],
     [import_name |-> <<"b">>, export_name |-> <<"b">>, is_data |-> TRUE]}
GenInputs == UNION {[1..n -> GenStubs] : n \in 0..MaxInput}

(* A build script: Config::new, the public fields set, add_symbol_group
   calls, then generate_source. *)
InitGen ==
    /\ RunInit /\ present = Paths /\ ~checked /\ overlap = FALSE
    /\ stubs = <<>>
    /\ stub_by_exp = [e \in {} |-> 0]
    /\ groups = [n \in {} |-> <<>>]
    /\ cfg_last = NoCall
    /\ cfg_log = <<>>
    /\ target \in Targets
    /\ adjust_symbol_names \in BOOLEAN
    /\ gen = <<>>
    /\ InspIdle

NextGen ==
    \/ \E group_name \in GroupNames, symbols \in GenInputs :
           gen = <<>> /\ AddSymbolGroup(group_name, symbols)
    \/ \E suffix \in Suffixes, order \in [1..Cardinality(DOMAIN groups) -> DOMAIN groups] :
           GenerateSource(suffix, order)

SpecGen == InitGen /\ [][NextGen]_vars

\* The names of the symbol tables, and their entries: loc is st_shndx (ELF),
\* the offset or rva of an export (Mach-O, PE), section_number (COFF).
SymNames == {"add_0", "add_1", ""}
SymEntries == [name : SymNames \cup {None}, import : BOOLEAN, loc : 0..1]
SeqsUpTo(S, n) == UNION {[1..k -> S] : k \in 0..n}
SymTables == SeqsUpTo(SymEntries, MaxSyms)
RelocLists == SeqsUpTo([sym : 1..(MaxSyms + 1), extern : BOOLEAN], MaxRelocs)

\* Section tables: none; two ELF section headers; two ranges, out of order.
Section(offset, size, name) == [offset |-> offset, size |-> size, name |-> name]
SectionTables ==
    {<<>>,
     <<Section(0, 0, ""), Section(0, 1, ".text")>>,
     <<Section(1, 1, "__DATA.__data"), Section(0, 1, "__TEXT.__text")>>}

Obj(kind, first, ok, sections, syms, relocs, members) ==
    [kind |-> kind, first |-> first, ok |-> ok, sections |-> sections,
     syms |-> syms, relocs |-> relocs, members |-> members]

\* A file with no content that matters: missing, not an object, an object
\* of a kind neither call supports, a Mach-O whose tables cannot be read, a
\* fat binary whose first slice is an archive or cannot be read.
Bare(kind, first, ok) == Obj(kind, first, ok, <<>>, <<>>, <<>>, <<>>)
BareObjects ==
    {Bare(kind, "Binary", TRUE) : kind \in {"NoFile", "Unparsed", "Unknown", "ExtractErr"}}
        \cup {Bare("Mach", first, FALSE) : first \in {"Binary", "MachO"}}
        \cup {Bare("Mach", first, TRUE) : first \in {"Archive", "Err"}}

\* The members of an archive: small ELF objects, and bare ones.
MemberObjects ==
    {Obj("Elf", "Binary", TRUE, <<>>, syms, relocs, <<>>) :
        syms \in SeqsUpTo(SymEntries, 1),
        relocs \in SeqsUpTo([sym : {1}, extern : {TRUE}], 1)}
        \cup BareObjects

(* A build script inspects one file, with either call or with both. *)
InitInspect ==
    /\ RunInit /\ present = Paths /\ ~checked /\ ~lazy_binding /\ overlap = FALSE
    /\ CfgInit
    /\ object \in
           {Obj(kind, "Binary", TRUE, sections, syms, <<>>, <<>>) :
               kind \in {"Elf", "PE"}, sections \in SectionTables, syms \in SymTables}
               \cup {Obj("Mach", first, TRUE, sections, syms, <<>>, <<>>) :
                        first \in {"Binary", "MachO"}, sections \in SectionTables, syms \in SymTables}
               \cup {Obj("Elf", "Binary", TRUE, <<>>, syms, relocs, <<>>) :
                        syms \in SymTables, relocs \in RelocLists}
               \cup {Obj("Mach", first, TRUE, <<>>, syms, relocs, <<>>) :
                        first \in {"Binary", "MachO"}, syms \in SymTables, relocs \in RelocLists}
               \cup {Obj("COFF", "Binary", TRUE, <<>>, syms, <<>>, <<>>) : syms \in SymTables}
               \cup {Obj("Archive", "Binary", TRUE, <<>>, <<>>, <<>>, members) :
                        members \in SeqsUpTo(MemberObjects, MaxMembers)}
               \cup BareObjects
    /\ exports_result = NoResult
    /\ imports_result = NoResult
    /\ cpu = [pc |-> 0] /\ ranges = <<>>

NextInspect == DylibExports \/ ArchiveImports

SpecInspect == InitInspect /\ [][NextInspect]_vars

\* The targets that have a resolver trampoline, and the first calls made.
StubTargets == {tg \in Targets : StartsWith(tg, "x86_64-") \/ StartsWith(tg, "aarch64-")
                                     \/ StartsWith(tg, "arm")}

(* A SectionRanges::new() that sections are inserted into. *)
InitRanges == InitCfg

NextRanges == \E offset \in 0..MaxOffset, size \in 0..MaxSize : Insert(offset, size)

SpecRanges == InitRanges /\ [][NextRanges]_vars

(* A first call through the stub of symbol index, on each target. *)
InitStub ==
    /\ RunInit /\ present = Paths /\ ~checked /\ lazy_binding /\ overlap = FALSE
    /\ stubs = <<>>
    /\ stub_by_exp = [e \in {} |-> 0]
    /\ groups = [n \in {} |-> <<>>]
    /\ cfg_last = NoCall
    /\ cfg_log = <<>>
    /\ target \in StubTargets
    /\ adjust_symbol_names = TRUE
    /\ gen = <<>>
    /\ object = NoObject /\ exports_result = NoResult /\ imports_result = NoResult
    /\ ranges = <<>>
    /\ \E index \in 0..MaxIndex, sp0 \in {StackTop, StackTop + Word}, clobber \in BOOLEAN :
           cpu = Entered(index, sp0, clobber)

SpecStub == InitStub /\ [][Step]_vars

(* ------------------------------ claims ---------------------------------- *)

\* A call of operation op by thread t has just returned.
Ret(t, ops) == th[t].pc = "ret" /\ th[t].op \in ops

GroupResolveOps == {"resolve", "resolve_bool"}

(* C1: once Group.resolve has returned success (and mark_failed has not been
   called since), each later Group.resolve of the group, of either shape and
   in either mode, returns success and calls neither load_library nor
   find_symbol. *)
C1_ResolveCached ==
    \A t \in Threads :
        (Ret(t, GroupResolveOps) /\ th[t].succ0)
            => /\ th[t].ret \in {"ok", "true"}
               /\ th[t].lookups = 0
               /\ th[t].loads = 0

\* A token-returning resolve succeeds again in checked mode, where the
\* status is not cached.
C1_Witness ==
    \E t \in Threads :
        Ret(t, {"resolve"}) /\ th[t].succ0 /\ checked /\ th[t].ret = "ok"

(* C2: a Group.resolve that finds the status Unknown while the loaded
   library lacks a symbol of the group returns failure and leaves the status
   Failed; a Group.resolve that finds the status Failed returns failure
   without any find_symbol. *)
C2_FailureCached ==
    \A t \in Threads :
        Ret(t, GroupResolveOps)
            => /\ (th[t].st0 = GROUP_STATUS_UNKNOWN /\ th[t].miss0)
                     => /\ th[t].ret \in {"err_symbol", "false"}
                        /\ status[th[t].g] = GROUP_STATUS_FAILED
               /\ th[t].st0 = GROUP_STATUS_FAILED
                     => /\ th[t].ret \in {"err_group", "false"}
                        /\ th[t].lookups = 0

(* C3: in checked mode a call through the stub of a symbol succeeds while
   the calling thread holds a live token of a group containing the symbol,
   and fails the assertion check when the thread holds no such token and no
   token of such a group was made permanent. *)
C3_ScopedAssertion ==
    \A t \in Threads :
        (checked /\ Ret(t, {"call"}))
            => /\ th[t].tok0 > 0 => th[t].ret = "reached"
               /\ (th[t].tok0 = 0 /\ ~th[t].perm0) => th[t].ret = "abort_assert"

(* C4: in checked mode, once mark_permanent was called on a token of a
   group, a call through the stub of any symbol of the group passes the
   assertion check and reaches its target, on every thread. *)
C4_PermanentEverywhere ==
    \A t \in Threads :
        (checked /\ Ret(t, {"call"}) /\ th[t].perm0) => th[t].ret = "reached"

(* C5: with lazy binding and without checked mode, a call through the stub
   of a code symbol whose slot still holds resolve_<i> enters the resolver:
   it makes at most one find_symbol, and when it reaches a target it made
   exactly one, the target is the address found for the symbol and slot i
   holds it; a call that finds the slot resolved jumps to the slot's value
   with no lookup and no library load. *)
C5_LazyBinding ==
    \A t \in Threads :
        (lazy_binding /\ ~checked /\ Ret(t, {"call"}))
            => IF th[t].slot0 = Thunk(th[t].s)
               THEN /\ th[t].lookups <= 1
                    /\ th[t].ret \in {"reached", "abort_symbol", "abort_load"}
                    /\ th[t].ret = "reached"
                          => /\ th[t].lookups = 1
                             /\ th[t].val = Addr(handle, th[t].s)
                             /\ th[t].s \in Exports(handle)
                             /\ symbol_table[th[t].s] = th[t].val
               ELSE /\ th[t].ret = "reached"
                    /\ th[t].val = th[t].slot0
                    /\ th[t].val \in AddrsOf(th[t].s)
                    /\ th[t].lookups = 0
                    /\ th[t].loads = 0

\* A later call goes direct through a slot the first call resolved, with no
\* explicit resolve before it.
C5_Witness ==
    \E t \in Threads :
        /\ lazy_binding /\ ~checked /\ Ret(t, {"call"})
        /\ th[t].slot0 # Thunk(th[t].s)
        /\ th[t].s \in viaLazy
        /\ \A g \in Groups : status[g] = GROUP_STATUS_UNKNOWN

\* The candidates the platform loader accepts, by position in dylib_names.
Loadable == {k \in 1..Len(dylib_names) : dylib_names[k] \in present}
FirstLoadable == CHOOSE k \in Loadable : \A j \in Loadable : k <= j

(* C6: Library.load on a handle of 0 tries the candidates in list order up
   to the first one the loader accepts, stores and returns that handle, so
   that handle() gives it; when no candidate loads it returns an error,
   having tried them all, and the handle stays 0. *)
C6_LoadOrder ==
    \A t \in Threads :
        (Ret(t, {"load"}) /\ th[t].h0 = 0)
            => IF Loadable = {}
               THEN /\ th[t].ret = "err_notfound"
                    /\ th[t].tried = dylib_names
                    /\ handle = 0
                    /\ handle_opt = <<"None">>
               ELSE /\ th[t].ret = "ok"
                    /\ th[t].val = HandleOf(dylib_names[FirstLoadable])
                    /\ th[t].tried = SubSeq(dylib_names, 1, FirstLoadable)
                    /\ handle = th[t].val
                    /\ handle_opt = <<"Some", th[t].val>>

\* The first candidate was rejected and the second one loaded.
C6_Witness ==
    \E t \in Threads :
        Ret(t, {"load"}) /\ th[t].h0 = 0 /\ th[t].ret = "ok" /\ Len(th[t].tried) = 2

(* C7: load and load_from on a non-zero handle return the already-loaded
   error, make no call to the platform loader and leave the handle as it
   was. *)
C7_AlreadyLoaded ==
    \A t \in Threads :
        (Ret(t, {"load", "load_from"}) /\ th[t].h0 # 0)
            => /\ th[t].ret = "err_already"
               /\ th[t].loads = 0
               /\ th[t].tried = <<>>
               /\ handle = th[t].h0

\* load_from is refused for a file the loader would accept, other than the
\* loaded one.
C7_Witness ==
    \E t \in Threads :
        /\ Ret(t, {"load_from"}) /\ th[t].h0 # 0
        /\ th[t].path \in present /\ HandleOf(th[t].path) # th[t].h0

(* C8: in every interleaving, once a thread has read a group's status as
   Resolved (and whenever the status is Resolved), every slot the group
   indexes (the shadow slot in checked mode) holds a non-zero resolved
   address of its symbol, from then on. *)
C8_ResolvedPublishesSlots ==
    \A g \in Groups :
        (observed[g] \/ status[g] = GROUP_STATUS_RESOLVED)
            => \A s \in GroupSyms(g) : Slot(s) # 0 /\ Slot(s) \in AddrsOf(s)

\* A resolve returns the cached success, having read Resolved, while the
\* call that resolved the group and stored the status has not yet returned.
C8_Witness ==
    \E g \in Groups, t \in Threads, u \in Threads :
        /\ t # u /\ observed[g]
        /\ Ret(t, GroupResolveOps) /\ th[t].g = g
        /\ th[t].ret \in {"ok", "true"} /\ th[t].lookups = 0
        /\ th[u].op \in GroupResolveOps /\ th[u].g = g
        /\ th[u].pc = "gr_assert" /\ th[u].lookups > 0

\* The positions <<call, place>> of the stubs passed to the calls so far, and
\* their order of appearance.
Occ == {o \in (1..MaxCalls) \X (1..MaxInput) :
           o[1] <= Len(cfg_log) /\ o[2] <= Len(cfg_log[o[1]].symbols)}
OccStub(o) == cfg_log[o[1]].symbols[o[2]]
Before(o, q) == o[1] < q[1] \/ (o[1] = q[1] /\ o[2] < q[2])
FirstOcc(e) ==
    CHOOSE o \in Occ :
        /\ OccStub(o).export_name = e
        /\ \A q \in Occ : OccStub(q).export_name = e => (q = o \/ Before(o, q))

(* C9: after add_symbol_group calls that all succeeded, the stub table holds
   exactly one stub per distinct export name, namely the first one passed
   with that name, in order of first appearance; each group's index list has
   one entry per stub passed, in input order, each the 0-based index of the
   stub with that export name; so a stub two groups share has one index. *)
C9_StubTableDedup ==
    cfg_last.allok =>
        /\ \A i, j \in 1..Len(stubs) :
               stubs[i].export_name = stubs[j].export_name => i = j
        /\ {stubs[i].export_name : i \in 1..Len(stubs)}
               = {OccStub(o).export_name : o \in Occ}
        /\ \A i \in 1..Len(stubs) : stubs[i] = OccStub(FirstOcc(stubs[i].export_name))
        /\ \A i, j \in 1..Len(stubs) :
               i < j => Before(FirstOcc(stubs[i].export_name),
                               FirstOcc(stubs[j].export_name))
        /\ DOMAIN groups = {cfg_log[i].group : i \in 1..Len(cfg_log)}
        /\ \A i \in 1..Len(cfg_log) :
               LET idxs == groups[cfg_log[i].group]
                   syms == cfg_log[i].symbols
               IN  /\ Len(idxs) = Len(syms)
                   /\ \A k \in 1..Len(syms) :
                          /\ idxs[k] \in 0..(Len(stubs) - 1)
                          /\ stubs[idxs[k] + 1].export_name = syms[k].export_name

\* Two groups of two stubs share one stub: three stubs, one shared index.
C9_Witness ==
    /\ cfg_last.allok
    /\ Len(stubs) = 3
    /\ DOMAIN groups = {"A", "B"}
    /\ Len(groups["A"]) = 2 /\ Len(groups["B"]) = 2
    /\ groups["A"][2] = groups["B"][1]
    /\ groups["A"][1] # groups["B"][2]

IncompatibleResults == {"incompatible_is_data", "incompatible_import_name"}

(* C10: an add_symbol_group call that returns the incompatible-redefinition
   error leaves the stub table, the export-name index and the group map as
   they were before the call, also when stubs with new export names precede
   the conflicting one in the same call. *)
C10_ConflictLeavesConfig ==
    [][(cfg_last'.n # cfg_last.n /\ cfg_last'.result \in IncompatibleResults)
          => /\ stubs' = stubs
             /\ stub_by_exp' = stub_by_exp
             /\ groups' = groups]_vars

\* The stub table, the export-name index and the group lists agree.
ConfigConsistent ==
    /\ \A i, j \in 1..Len(stubs) :
           stubs[i].export_name = stubs[j].export_name => i = j
    /\ DOMAIN stub_by_exp = {stubs[i].export_name : i \in 1..Len(stubs)}
    /\ \A i \in 1..Len(stubs) : stub_by_exp[stubs[i].export_name] = i - 1
    /\ \A g \in DOMAIN groups : \A k \in 1..Len(groups[g]) :
           groups[g][k] \in 0..(Len(stubs) - 1)

(* C11: after any sequence of add_symbol_group calls, failed ones included,
   no two stubs share an export name, the export-name index maps exactly the
   stubs' export names, each to its stub's position, and every index of
   every group is a position of the stub table; and a call that names an
   existing group returns the duplicate-group error and changes neither the
   group map nor the stub table nor the index. *)
C11_ConfigInvariants ==
    /\ []ConfigConsistent
    /\ [][(cfg_last'.n # cfg_last.n /\ cfg_last'.group \in DOMAIN groups)
             => /\ cfg_last'.result = "duplicate_group"
                /\ groups' = groups
                /\ stubs' = stubs
                /\ stub_by_exp' = stub_by_exp]_vars

\* A duplicate-group call that passed a new stub, after a call that failed
\* on a conflict or succeeded with two stubs.
C11_Witness ==
    /\ cfg_last.result = "duplicate_group"
    /\ Len(cfg_last.symbols) > 0
    /\ cfg_last.symbols[1].export_name \notin DOMAIN stub_by_exp
    /\ Len(stubs) = 2

\* The macOS triples among the targets, and the names the adjustment is to
\* give a stub there.
MacTargets == {tg \in Targets : Contains(tg, "apple-darwin")}
Adjusting == adjust_symbol_names /\ target \in MacTargets
EqualNamedCode(stub) == ~stub.is_data /\ stub.export_name = stub.import_name
Underscored(name) == Len(name) > 0 /\ Head(name) = "_"
ExpectedImport(stub) ==
    IF Adjusting /\ EqualNamedCode(stub) /\ Underscored(stub.import_name)
    THEN Tail(stub.import_name) ELSE stub.import_name
ExpectedExport(stub) ==
    IF Adjusting /\ EqualNamedCode(stub) /\ ~Underscored(stub.export_name)
    THEN <<"_">> \o stub.export_name ELSE stub.export_name

\* The runs of generate_source so far.
Runs == 1..Len(gen)

(* C12: in everything generate_source emits, the looked-up name and the
   exported name of each stub are the stub's own import and export names,
   except with adjust_symbol_names on and a macOS target, where a non-data
   stub with equal names loses a leading '_' from its import name only, or
   else gets '_' prepended to its export name only; and the stored stubs
   are not changed by the run. *)
C12_MacNameAdjustment ==
    \A r \in Runs :
        /\ Len(gen[r].symbol_names) = Len(stubs)
        /\ \A i \in 1..Len(stubs) : gen[r].symbol_names[i] = ExpectedImport(stubs[i])
        /\ gen[r].result = "ok"
              => /\ Len(gen[r].unit.items) = Len(stubs)
                 /\ \A i \in 1..Len(stubs) :
                        gen[r].unit.items[i].name = ExpectedExport(stubs[i])

\* A macOS run with the flag on emits "f" as "_f" looked up as "f", "_f" as
\* "_f" looked up as "f", and leaves a data stub and a renamed stub alone.
C12_Witness ==
    \E r \in Runs : \E i, j, k \in 1..Len(stubs) :
        /\ Adjusting /\ gen[r].result = "ok"
        /\ stubs[i].export_name = <<"f">> /\ stubs[i].import_name = <<"f">>
        /\ gen[r].unit.items[i].name = <<"_", "f">> /\ gen[r].symbol_names[i] = <<"f">>
        /\ stubs[j].export_name = <<"_", "f">>
        /\ gen[r].unit.items[j].name = <<"_", "f">> /\ gen[r].symbol_names[j] = <<"f">>
        /\ stubs[k].export_name = <<"b">>
        /\ gen[r].unit.items[k].name = <<"b">>

\* Pointer width of the target, in bytes.
PointerBytes == IF StartsWith(target, "armv7") THEN 4 ELSE 8
Count(seq, v) == Cardinality({k \in DOMAIN seq : seq[k] = v})

(* C13: in each emitted unit, for the stub at position i: the symbol-name
   list has its import name at i, the table has one slot of pointer size
   per stub, its trampoline (named by its export name) jumps through the
   table's label at byte offset i times the pointer size, a data accessor
   returns slot i of the table the Library is given, and every group is
   emitted once with the positions its list holds. *)
C13_IndexConsistency ==
    \A r \in Runs :
        LET o == gen[r]
            a == AdjustedStubs
        IN  /\ o.size = Len(stubs)
            /\ Len(o.symbol_names) = Len(stubs)
            /\ \A i \in 1..Len(stubs) : o.symbol_names[i] = a[i].import_name
            /\ {o.groups[k].name : k \in DOMAIN o.groups} = DOMAIN groups
            /\ Len(o.groups) = Cardinality(DOMAIN groups)
            /\ \A k \in DOMAIN o.groups :
                   \A v \in 0..Len(stubs) :
                       Count(o.groups[k].indices, v) = Count(groups[o.groups[k].name], v)
            /\ o.result = "ok"
                  => /\ Len(o.unit.entries) = Len(stubs)
                     /\ DirectiveBytes(o.unit.directive) = PointerBytes
                     /\ Len(o.unit.items) = Len(stubs)
                     /\ \A i \in 1..Len(stubs) :
                            LET it == o.unit.items[i]
                            IN  /\ it.name = a[i].export_name
                                /\ it.kind = IF stubs[i].is_data THEN "accessor" ELSE "fn"
                                /\ it.kind = "fn"
                                      => /\ it.slot.offset = (i - 1) * PointerBytes
                                         /\ it.slot.base = {o.unit.label}
                                /\ it.kind = "accessor"
                                      => /\ it.slot.index = i - 1
                                         /\ it.slot.table = o.sym_table

\* A 32-bit ARM unit with a trampoline past slot 0 and a data accessor, and
\* a group whose list is not in ascending order.
C13_Witness ==
    \E r \in Runs : \E i, j \in 2..Len(stubs) :
        /\ gen[r].result = "ok" /\ PointerBytes = 4
        /\ gen[r].unit.items[i].kind = "fn"
        /\ gen[r].unit.items[j].kind = "accessor"
        /\ \E g \in DOMAIN groups : Len(groups[g]) = 2 /\ groups[g][1] > groups[g][2]

(* C18: two generate_source runs on Configs built by the same calls with
   the same field values, that draw the same table-name suffix, write the
   same output, the Group constants in the same order. *)
C18_GeneratorDeterminism ==
    \A r, q \in Runs : gen[r].sym_table = gen[q].sym_table => gen[r] = gen[q]

\* The live tokens of thread t that assert symbol s.
LiveFor(t, s) ==
    LET gs == GroupsOf(s)
    IN  IF gs = {} THEN 0
        ELSE IF Cardinality(gs) = 1 THEN tokens[t][CHOOSE g \in gs : TRUE]
        ELSE tokens[t][1] + tokens[t][2]

(* C14: in checked mode, while the process runs and no if_resolved scope is
   open on a thread (each one has ended, by return or by unwinding), the
   thread's assertion counter
   of every symbol none of whose groups had a token made permanent equals
   the number of live tokens the thread holds for the symbol: each ended
   scope has put the counters back. *)
C14_ScopedRelease ==
    \A t \in Threads :
        (checked /\ checked_state /\ ~aborted /\ th[t].pc \in {"idle", "ret"})
            => \A s \in Syms :
                   (\A g \in GroupsOf(s) : ~perm[g]) => thread_asserted[t][s] = LiveFor(t, s)

GroupGateOps == {"resolve", "resolve_bool", "if_resolved"}

(* C15: when mark_failed returns, the group's status is Failed, whatever it
   was; while calls do not overlap a Failed status stays Failed; and a
   Group.resolve (or if_resolved) that starts on a Failed group returns
   failure, issues no token and makes no symbol lookup and no library load. *)
C15_MarkFailed ==
    /\ [](\A t \in Threads :
             /\ Ret(t, {"mark_failed"}) => status[th[t].g] = GROUP_STATUS_FAILED
             /\ (Ret(t, GroupGateOps) /\ th[t].st0 = GROUP_STATUS_FAILED)
                   => /\ th[t].ret \in {"err_group", "false"}
                      /\ tokens[t][th[t].g] = th[t].tok0
                      /\ th[t].lookups = 0
                      /\ th[t].loads = 0)
    /\ [][\A g \in Groups :
             status[g] = GROUP_STATUS_FAILED => status'[g] = GROUP_STATUS_FAILED]_vars

\* A token-returning resolve fails on a group that had been resolved (its
\* slots hold addresses) and was then marked failed.
C15_Witness ==
    \E t \in Threads :
        /\ Ret(t, {"resolve"}) /\ th[t].st0 = GROUP_STATUS_FAILED
        /\ th[t].ret = "err_group"
        /\ \A s \in GroupSyms(th[t].g) : Slot(s) \in AddrsOf(s)

\* The calls that resolve symbols.
SymbolOps == GroupGateOps \cup {"resolve_uncached", "call"}

\* The call of thread t got as far as ensure_loaded: a group that was not
\* yet settled (with the checked state in place where the entry is read
\* first), or a lazy call through a thunk whose assertion check passed.
ReachedEnsureLoaded(t) ==
    LET r == th[t]
    IN  CASE r.op = "resolve_uncached" -> TRUE
          [] r.op \in GroupGateOps ->
                r.st0 = GROUP_STATUS_UNKNOWN /\ (checked => checked_state)
          [] r.op = "call" ->
                /\ r.slot0 = Thunk(r.s) /\ r.ret # "abort_assert"
                /\ checked => checked_state
          [] OTHER -> FALSE

(* C16: a symbol resolution that begins while the handle is 0 runs load over
   the candidate list: when a candidate loads, the handle is that library's,
   non-null, and the lookups are made in it; when none loads, the resolution
   panics (the process aborts under lazy_resolve) and returns no error.  A
   resolution that begins with a non-zero handle loads nothing and looks up
   in that handle. *)
C16_EnsureLoaded ==
    \A t \in Threads :
        Ret(t, SymbolOps) =>
            /\ th[t].h0 # 0 =>
                  /\ th[t].loads = 0 /\ th[t].tried = <<>> /\ handle = th[t].h0
                  /\ th[t].lookups > 0 => th[t].h = th[t].h0
            /\ (th[t].h0 = 0 /\ ReachedEnsureLoaded(t)) =>
                  IF Loadable = {}
                  THEN /\ th[t].ret \in {"panic", "abort_load"}
                       /\ th[t].tried = dylib_names
                       /\ th[t].lookups = 0
                       /\ handle = 0
                  ELSE /\ th[t].tried = SubSeq(dylib_names, 1, FirstLoadable)
                       /\ handle = HandleOf(dylib_names[FirstLoadable])
                       /\ handle # 0
                       /\ th[t].lookups > 0 /\ th[t].h = handle
                       /\ th[t].ret # "abort_load"

\* A group resolution loaded the second candidate after the first was
\* rejected, and found its symbols there.
C16_Witness ==
    \E t \in Threads :
        /\ Ret(t, GroupGateOps \cup {"resolve_uncached"}) /\ th[t].h0 = 0
        /\ Loadable # {} /\ FirstLoadable = 2
        /\ th[t].ret \in {"ok", "true"}
        /\ th[t].h = handle /\ th[t].lookups > 0

\* With no loadable candidate the resolution panicked.
C16_WitnessPanic ==
    \E t \in Threads :
        /\ Ret(t, SymbolOps) /\ th[t].h0 = 0 /\ Loadable = {}
        /\ th[t].ret = "panic" /\ th[t].tried = dylib_names

\* The synthetic table as the generated unit initialises it.
InitialTable == [s \in Syms |-> IF lazy_binding /\ ~IsData(s) THEN Thunk(s) ELSE 0]

(* C17: in a checked build no runtime operation writes the real synthetic
   symbol table: every real slot keeps its initial value in every step, so a
   data accessor returns null also after its group was resolved, and the
   only non-initial entries are those of the shadow table, each the address
   of its symbol. *)
C17_RealTableUntouched ==
    /\ [](checked =>
             /\ symbol_table = InitialTable
             /\ \A s \in Syms : IsData(s) => data_accessor(s) = 0
             /\ \A s \in Syms : shadow_symbol_table[s] \in AddrsOf(s) \cup {0})
    /\ [][checked => symbol_table' = symbol_table]_vars

\* The group of the data symbol is resolved in a checked build: its address
\* is in the shadow table, and the accessor returns null.
C17_Witness ==
    /\ checked
    /\ \E g \in Groups :
          /\ status[g] = GROUP_STATUS_RESOLVED
          /\ \E s \in GroupSyms(g) :
                IsData(s) /\ shadow_symbol_table[s] \in AddrsOf(s) /\ data_accessor(s) = 0

\* The call of thread t went through resolve_<s> into lazy_resolve(s).
EnteredLazy(t) == th[t].op = "call" /\ th[t].slot0 = Thunk(th[t].s)

(* C20: a lazy_resolve(i) that is over has either returned the non-zero
   address of symbol i, or aborted the process: it never unwinds a panic to
   its caller and never returns 0.  It checks the assertion before it
   resolves: a call whose assertion check fails in a checked build ends in
   the abort, with no library load and no symbol lookup made. *)
C20_LazyResolve ==
    \A t \in Threads :
        (th[t].pc = "ret" /\ EnteredLazy(t)) =>
            /\ \/ /\ th[t].ret = "reached"
                  /\ th[t].val # 0 /\ th[t].val \in AddrsOf(th[t].s)
                  /\ ~aborted
               \/ /\ th[t].ret \in {"abort_assert", "abort_symbol", "abort_load"}
                  /\ aborted
            /\ ~check_asserted(t, th[t].s) =>
                  /\ th[t].ret = "abort_assert"
                  /\ th[t].loads = 0 /\ th[t].lookups = 0
                  /\ handle = th[t].h0
            /\ th[t].ret = "abort_assert" => checked /\ ~check_asserted(t, th[t].s)

\* In a checked build a symbol is called with no assertion held while its
\* library is loaded and exports it: the process aborts, nothing looked up.
C20_Witness ==
    \E t \in Threads :
        /\ th[t].pc = "ret" /\ EnteredLazy(t)
        /\ checked /\ checked_state /\ ~check_asserted(t, th[t].s)
        /\ handle # 0 /\ th[t].s \in Exports(handle)
        /\ th[t].ret = "abort_assert"

\* No two entries of the list have the same name.
UniqueNames(list) == \A i, j \in DOMAIN list : list[i].name = list[j].name => i = j

(* C19: for every file, a list of exports that dylib_exports returns holds
   no name twice, and a list of imports that archive_imports returns holds
   no name twice. *)
C19_InspectorDedup ==
    /\ exports_result.result = "Ok" => UniqueNames(exports_result.list)
    /\ imports_result.result = "Ok" => UniqueNames(imports_result.list)

\* The slot of symbol s holds a resolved address (not 0, not its thunk).
SlotResolved(s) == Slot(s) # 0 /\ Slot(s) # Thunk(s)

(* C21: in every step of every call, a slot that holds a resolved address
   keeps that address: it is not written with another value and does not
   return to 0 (or to its thunk); a slot that changes goes from unresolved
   to an address of its symbol. *)
C21_SlotsMonotonic ==
    [][\A s \in Syms :
          /\ SlotResolved(s) => Slot(s)' = Slot(s)
          /\ Slot(s)' # Slot(s) => Slot(s)' \in AddrsOf(s)]_vars

(* C22: in a non-checked build, a resolve_symbol(i) that begins while slot
   i holds a resolved address goes on without a library load, without a
   find_symbol lookup and without a write of the slot. *)
C22_SlotCacheNonChecked ==
    [][\A t \in Threads :
          (~checked /\ th[t].pc = "rs_handle" /\ SlotResolved(th[t].s) /\ th'[t] # th[t])
              => /\ th'[t].lookups = th[t].lookups
                 /\ th'[t].loads = th[t].loads
                 /\ th'[t].pc \notin {"ld_read", "rs_write"}
                 /\ symbol_table' = symbol_table]_vars

\* The trampoline has jumped to the address the resolver returned.
Arrived == cpu.pc > 0 /\ cpu.pc = Len(Program(cpu.index)) + 1

(* C23: on each architecture, a first call through resolve_<i> and the
   resolver trampoline passes i to the resolver and then jumps to the address
   the resolver returned, with the stack pointer, the caller's return
   address and every register but the scratch register as they were when the
   stub was entered. *)
C23_TrampolinePreserves ==
    Arrived =>
        /\ cpu.passed = cpu.index
        /\ cpu.jumped = ResolvedAddress
        /\ cpu.regs[SP] = cpu.sp0
        /\ cpu.mem[cpu.sp0] = ReturnAddress
        /\ \A r \in Regs \ {Scratch} : cpu.regs[r] = EntryValue(r)

\* The ranges are in order of their offsets, and no two of them overlap.
SortedRanges == \A i, j \in DOMAIN ranges : i < j => ranges[i].offset <= ranges[j].offset
NonOverlapping ==
    \A i, j \in DOMAIN ranges :
        i # j => \/ ranges[i].offset + ranges[i].size <= ranges[j].offset
                 \/ ranges[j].offset + ranges[j].size <= ranges[i].offset

\* The ranges with the greatest offset at or before o that hold o.
Holding(o) ==
    {i \in DOMAIN ranges :
        /\ ranges[i].offset <= o
        /\ \A j \in DOMAIN ranges : ranges[j].offset <= o => ranges[j].offset <= ranges[i].offset
        /\ ranges[i].offset + ranges[i].size > o}

(* C24: the section range index is sorted by offset after every insert, and
   when its ranges do not overlap, lookup(o) gives the name of the range with
   the greatest offset at or before o if o lies inside it, and None in every
   other case. *)
C24_SectionRanges ==
    /\ SortedRanges
    /\ NonOverlapping =>
          \A o \in 0..(MaxOffset + MaxSize) :
              IF Holding(o) = {} THEN lookup(ranges, o) = None
              ELSE \E i \in Holding(o) : lookup(ranges, o) = ranges[i].name

(* C25: in every interleaving, a group status that is Failed stays Failed
   in every step, and no resolve on the group returns success in a step
   taken while the status is Failed. *)
C25_FailedAbsorbing ==
    [][\A g \in Groups :
          status[g] = GROUP_STATUS_FAILED =>
              /\ status'[g] = GROUP_STATUS_FAILED
              /\ \A t \in Threads :
                    (th[t].pc # "ret" /\ th'[t].pc = "ret"
                        /\ th'[t].op \in GroupResolveOps /\ th'[t].g = g)
                        => th'[t].ret \notin {"ok", "true"}]_vars

LoadOps == {"load", "load_from"}

(* C26: when the only calls made on the Library are two concurrent load or
   load_from calls, in every interleaving at most one of them returns
   success; the other one then returns an error (the already-loaded error,
   unless its own file could not be loaded), and the handle is the one the
   successful call returned. *)
C26_SingleLoad ==
    \A t, u \in Threads :
        (t # u /\ nops = 2 /\ Ret(t, LoadOps) /\ Ret(u, LoadOps) /\ th[t].ret = "ok")
            => /\ th[u].ret \in {"err_already", "err_load", "err_notfound"}
               /\ handle = th[t].val

(* C27: in a checked build every step changes a thread's assertion counter
   of a symbol by at most one, up for an assertion taken and down for one
   released: the 8-bit counter never wraps from 0 to 255 or from 255 to 0. *)
C27_CountersNeverWrap ==
    [][checked =>
          \A t \in Threads, s \in Syms :
              thread_asserted'[t][s] \in {thread_asserted[t][s] - 1, thread_asserted[t][s],
                                          thread_asserted[t][s] + 1}]_vars

(* C28: in a checked build no public operation (the calls through stubs
   apart) finds the checked state uninitialized: while the state has not been
   initialized, none of them ends in a panic. *)
C28_CheckedStateInitialized ==
    \A t \in Threads :
        (checked /\ ~checked_state /\ th[t].pc = "ret" /\ th[t].op # "call")
            => th[t].ret \notin {"panic"} \cup AbortRets


\* The stored stubs have pairwise distinct export names.
DistinctExports ==
    \A i, j \in 1..Len(stubs) : stubs[i].export_name = stubs[j].export_name => i = j

(* C29: when the stored stubs have pairwise distinct export names, the names
   a run of generate_source emits as global symbols (the label of each
   trampoline and the name of each data accessor) are pairwise distinct,
   also after the macOS name adjustment. *)
C29_GlobalNamesDistinct ==
    \A r \in Runs :
        (gen[r].result = "ok" /\ DistinctExports)
            => \A i, j \in DOMAIN gen[r].unit.items :
                   gen[r].unit.items[i].name = gen[r].unit.items[j].name => i = j


=============================================================================
